---- MODULE Spec2Model ----
(***************************************************************************)
(* Google Drive folder tools of Flowise: the token-partitioned folder      *)
(* cache, the folder-path resolver/creator and the folder search with      *)
(* fallback (packages/components/nodes/tools/GoogleDrive).                 *)
(*                                                                         *)
(* Text is modelled as a sequence of text atoms.  An atom is a short piece *)
(* of text ("a", ":", "'", "Root", "trashed=false", ...); the atoms are    *)
(* chosen so that no atom is spelled by a concatenation of other atoms, so *)
(* that equality, splitting and substring tests on the sequences agree     *)
(* with the same tests on the text.                                        *)
(***************************************************************************)
EXTENDS Integers, Sequences, FiniteSets, TLC

VARIABLES
    folderCache,   \* url-uploader.ts:404, the process-wide Map in insertion order
    now,           \* Date.now()
    ret,           \* the value returned by the last operation, with its arguments
    remote,        \* the folders of the remote drive, in the order it lists them
    folderPath,    \* the path argument of the calls of this run
    otherPath,     \* a second spelling of the path
    made,          \* what the last createFolderPath(folderPath) returned, while the
                   \* remote tree is as that call left it
    ncalls,        \* the number of calls made
    args,          \* the arguments of the search calls of this run
    calls          \* the createFolderPath invocations in progress, each at its
                   \* pending request or returned

cacheVars == <<folderCache, now>>
pathVars == <<remote, folderPath, otherPath, made, ncalls, args, calls>>
vars == <<folderCache, now, ret, remote, folderPath, otherPath, made, ncalls, args,
         calls>>

NULL == [tag |-> "null"]

-----------------------------------------------------------------------------
(* Bounds *)

MaxTicks == 2
MaxEntries == 2
MaxPieces == 3
MaxCalls == 2
MaxFolders == 2
MaxWalk == 4
MaxQuery == 3
MaxApply == 2
MaxUrls == 2

-----------------------------------------------------------------------------
(* Text helpers *)

\* String.prototype.slice(-n): the last n atoms, the whole text when shorter
SliceLast(s, n) == IF Len(s) <= n THEN s ELSE SubSeq(s, Len(s) - n + 1, Len(s))

\* the index of the first occurrence of atom c in s at or after position i, 0 if none
RECURSIVE IndexFrom(_, _, _)
IndexFrom(s, c, i) ==
    IF i > Len(s) THEN 0
    ELSE IF s[i] = c THEN i
    ELSE IndexFrom(s, c, i + 1)

\* String.prototype.split(c): the pieces of s between occurrences of c
RECURSIVE Split(_, _)
Split(s, c) ==
    LET k == IndexFrom(s, c, 1) IN
    IF k = 0 THEN <<s>>
    ELSE <<SubSeq(s, 1, k - 1)>> \o Split(SubSeq(s, k + 1, Len(s)), c)

-----------------------------------------------------------------------------
(* Folder cache: url-uploader.ts:398-428, 603-665 *)

CACHE_EXPIRY == 3600000

\* the clock advances in steps of the expiry time, so that an entry is seen
\* before, exactly at and after its expiry time
TickStep == CACHE_EXPIRY

HashLength == 8

A8 == <<"a", "a", "a", "a", "a", "a", "a", "a">>

\* access tokens: two that end in the same 8 characters, a short one that
\* ends in the same character as these, and one with a ':' in it
Tokens == { <<"p">> \o A8, <<"q">> \o A8, <<"a">>, <<"a", ":", "y">> }

FolderIds == { <<"f">>, <<"y", ":", "f">> }

Data == { [tag |-> "folder", v |-> "d1"], [tag |-> "folder", v |-> "d2"] }

hashAccessToken_short(accessToken) == SliceLast(accessToken, 1)

hashAccessToken(accessToken) == SliceLast(accessToken, HashLength)

createCacheKey(accessToken, folderId) ==
    hashAccessToken(accessToken) \o <<":">> \o folderId

\* Map.prototype.get / has / delete / set on the insertion-ordered map
MapIndex(m, key) ==
    IF \E i \in 1..Len(m) : m[i].key = key
    THEN CHOOSE i \in 1..Len(m) : m[i].key = key
    ELSE 0

MapGet(m, key) == IF MapIndex(m, key) = 0 THEN NULL ELSE m[MapIndex(m, key)]

MapDelete(m, key) ==
    LET k == MapIndex(m, key) IN
    IF k = 0 THEN m ELSE SubSeq(m, 1, k - 1) \o SubSeq(m, k + 1, Len(m))

MapSet_keepFirst(m, e) ==
    LET k == MapIndex(m, e.key) IN
    IF k = 0 THEN Append(m, e) ELSE m

MapSet(m, e) ==
    LET k == MapIndex(m, e.key) IN
    IF k = 0 THEN Append(m, e) ELSE [m EXCEPT ![k] = e]

\* an entry: key, data, accessTokenHash, expiresAt are the program's fields;
\* by and fid record the token and folder id of the setCacheEntry call that
\* wrote it (history, never read by the operations)
CacheEntry(accessToken, folderId, folderData) ==
    [ key |-> createCacheKey(accessToken, folderId),
      data |-> folderData,
      accessTokenHash |-> hashAccessToken(accessToken),
      expiresAt |-> now + CACHE_EXPIRY,
      by |-> accessToken,
      fid |-> folderId ]

Tick ==
    /\ now + TickStep <= MaxTicks * TickStep
    /\ now' = now + TickStep
    /\ ret' = [op |-> "tick", token |-> <<>>, folderId |-> <<>>,
               value |-> NULL, entry |-> NULL]
    /\ UNCHANGED <<folderCache, pathVars>>

setCacheEntry(accessToken, folderId, folderData) ==
    LET entry == CacheEntry(accessToken, folderId, folderData) IN
    /\ \/ Len(folderCache) < MaxEntries
       \/ MapIndex(folderCache, entry.key) # 0
    /\ folderCache' = MapSet(folderCache, entry)
    /\ ret' = [op |-> "set", token |-> accessToken, folderId |-> folderId,
               value |-> folderData, entry |-> NULL]
    /\ UNCHANGED <<now, pathVars>>

getCacheEntryHit_noExpiry(m, accessToken, folderId, time) ==
    LET entry == MapGet(m, createCacheKey(accessToken, folderId)) IN
    IF entry = NULL THEN NULL
    ELSE IF entry.accessTokenHash # hashAccessToken(accessToken) THEN NULL
    ELSE entry

\* the entry returned by getCacheEntry, NULL for a miss
getCacheEntryHit(m, accessToken, folderId, time) ==
    LET entry == MapGet(m, createCacheKey(accessToken, folderId)) IN
    IF entry = NULL THEN NULL
    ELSE IF time > entry.expiresAt THEN NULL
    ELSE IF entry.accessTokenHash # hashAccessToken(accessToken) THEN NULL
    ELSE entry

getCacheEntry(accessToken, folderId) ==
    LET key == createCacheKey(accessToken, folderId)
        entry == MapGet(folderCache, key)
        hit == getCacheEntryHit(folderCache, accessToken, folderId, now)
    IN
    /\ folderCache' = IF entry # NULL /\ hit = NULL
                      THEN MapDelete(folderCache, key)
                      ELSE folderCache
    /\ ret' = [op |-> "get", token |-> accessToken, folderId |-> folderId,
               value |-> IF hit = NULL THEN NULL ELSE hit.data,
               entry |-> entry]
    /\ UNCHANGED <<now, pathVars>>

clearExpiredCache_atExpiry ==
    /\ folderCache' = SelectSeq(folderCache, LAMBDA e : ~(now >= e.expiresAt))
    /\ ret' = [op |-> "sweep", token |-> <<>>, folderId |-> <<>>,
               value |-> NULL, entry |-> NULL, before |-> folderCache]
    /\ UNCHANGED <<now, pathVars>>

\* before: the cache as the sweep found it
clearExpiredCache ==
    /\ folderCache' = SelectSeq(folderCache, LAMBDA e : ~(now > e.expiresAt))
    /\ ret' = [op |-> "sweep", token |-> <<>>, folderId |-> <<>>,
               value |-> NULL, entry |-> NULL, before |-> folderCache]
    /\ UNCHANGED <<now, pathVars>>

RECURSIVE ListForToken_noFilter(_, _, _)
ListForToken_noFilter(m, tokenHash, time) ==
    IF m = <<>> THEN <<>>
    ELSE LET rest == ListForToken_noFilter(SubSeq(m, 1, Len(m) - 1), tokenHash, time)
             entry == m[Len(m)]
         IN
         IF time <= entry.expiresAt
         THEN MapSet(rest, [key |-> Split(entry.key, ":")[2], entry |-> entry])
         ELSE rest

\* the Map built by getFolderCacheForToken: result.set(folderId, entry.data)
\* for each matching entry in iteration order; listed as the sequence of
\* [folderId, entry] in the order of first insertion
RECURSIVE ListForToken(_, _, _)
ListForToken(m, tokenHash, time) ==
    IF m = <<>> THEN <<>>
    ELSE LET rest == ListForToken(SubSeq(m, 1, Len(m) - 1), tokenHash, time)
             entry == m[Len(m)]
         IN
         IF entry.accessTokenHash = tokenHash /\ time <= entry.expiresAt
         THEN LET folderId == Split(entry.key, ":")[2]
                  item == [key |-> folderId, entry |-> entry]
              IN MapSet(rest, item)
         ELSE rest

getFolderCacheForToken(accessToken) ==
    /\ ret' = [op |-> "list", token |-> accessToken, folderId |-> <<>>,
               value |-> ListForToken(folderCache, hashAccessToken(accessToken), now),
               entry |-> NULL]
    /\ UNCHANGED <<folderCache, now, pathVars>>

NoneMade == [result |-> NULL, clean |-> TRUE]

NoArgs == [folderName |-> <<>>]

NoPath ==
    /\ remote = <<>>
    /\ folderPath = <<>>
    /\ otherPath = <<>>
    /\ made = NoneMade
    /\ ncalls = 0
    /\ args = NoArgs
    /\ calls = <<>>

EmptyCache ==
    /\ folderCache = <<>>
    /\ now = 0

InitCache ==
    /\ EmptyCache
    /\ NoPath
    /\ ret = [op |-> "none", token |-> <<>>, folderId |-> <<>>,
              value |-> NULL, entry |-> NULL]

NextCache ==
    \/ Tick
    \/ \E t \in Tokens, f \in FolderIds, d \in Data : setCacheEntry(t, f, d)
    \/ \E t \in Tokens, f \in FolderIds : getCacheEntry(t, f)
    \/ clearExpiredCache
    \/ \E t \in Tokens : getFolderCacheForToken(t)

SpecCache == InitCache /\ [][NextCache]_vars

-----------------------------------------------------------------------------
(* Filter expressions: url-uploader.ts:376-387 and the query builders *)

Quote == "'"
Backslash == "\\"

\* the atoms that contain the text 'trashed'
TrashedAtoms == {"trashed", "trashed=false"}

\* String.prototype.includes('trashed')
IncludesTrashed(query) == \E i \in 1..Len(query) : query[i] \in TrashedAtoms

\* String.prototype.trim(): without leading and trailing blanks
RECURSIVE TrimStart(_)
TrimStart(s) == IF s # <<>> /\ Head(s) = " " THEN TrimStart(Tail(s)) ELSE s

RECURSIVE TrimEnd(_)
TrimEnd(s) ==
    IF s # <<>> /\ s[Len(s)] = " " THEN TrimEnd(SubSeq(s, 1, Len(s) - 1)) ELSE s

Trim(s) == TrimEnd(TrimStart(s))

addTrashedFilter_always(query, includeTrashed) ==
    IF includeTrashed THEN query
    ELSE query \o (IF Len(Trim(query)) > 0 THEN <<" and ">> ELSE <<>>)
               \o <<"trashed=false">>

addTrashedFilter(query, includeTrashed) ==
    IF includeTrashed THEN query
    ELSE IF ~IncludesTrashed(query)
         THEN query \o (IF Len(Trim(query)) > 0 THEN <<" and ">> ELSE <<>>)
                    \o <<"trashed=false">>
         ELSE query

\* name.replace(/'/g, "\\'")
RECURSIVE EscapeQuotes(_)
EscapeQuotes(name) ==
    IF name = <<>> THEN <<>>
    ELSE (IF Head(name) = Quote THEN <<Backslash, Quote>> ELSE <<Head(name)>>)
         \o EscapeQuotes(Tail(name))

\* mimeType='application/vnd.google-apps.folder'
FolderMimeClause == <<"mimeType=", Quote, "application/vnd.google-apps.folder", Quote>>

\* ` and '${parentId}' in parents`
ParentConstraint(parentId) == <<" and ", Quote, parentId, Quote, " in parents">>

\* the filter of resolveFolderPath (753-756) and of checkFolderExists (857-860)
FolderInParentQuery(folderName, parentId, includeTrashed) ==
    LET parentConstraint == ParentConstraint(parentId)
        escapedFolderName == EscapeQuotes(folderName)
        baseQuery == FolderMimeClause \o <<" and ", "name=", Quote>>
                     \o escapedFolderName \o <<Quote>> \o parentConstraint
    IN addTrashedFilter(baseQuery, includeTrashed)

-----------------------------------------------------------------------------
(* The remote folder tree and its files.list / files.create endpoints, as the
   code relies on them (spec section 6): a filter is a conjunction of clauses
   with single-quoted literals in which a backslash escapes the next
   character. *)

\* reads the literal whose opening quote is at q[i]: its text and the index of
\* its closing quote (0 when the literal is not closed)
RECURSIVE ReadLiteral(_, _, _)
ReadLiteral(q, j, acc) ==
    IF j > Len(q) THEN [text |-> acc, end |-> 0]
    ELSE IF q[j] = Backslash
         THEN IF j + 1 > Len(q) THEN [text |-> acc, end |-> 0]
              ELSE ReadLiteral(q, j + 2, Append(acc, q[j + 1]))
    ELSE IF q[j] = Quote THEN [text |-> acc, end |-> j]
    ELSE ReadLiteral(q, j + 1, Append(acc, q[j]))

\* the clauses that compare a field with a literal
LiteralFields ==
    {"mimeType=", "mimeType != ", "name=", "name contains ", "fullText contains "}

\* the clauses without a literal
FlagClauses == {"trashed=false", "sharedWithMe=true"}

\* the literal of the clause at q[i], after the name of its field if it has one
ClauseLiteral(q, i) ==
    IF q[i] \in LiteralFields
    THEN IF i + 1 <= Len(q) /\ q[i + 1] = Quote THEN ReadLiteral(q, i + 2, <<>>)
         ELSE [text |-> <<>>, end |-> 0]
    ELSE ReadLiteral(q, i + 1, <<>>)

\* the clause at q[i] with the literal lit: [ok, field, text, next], next
\* the index after the clause
ClauseWith(q, i, lit) ==
    LET bad == [ok |-> FALSE, field |-> "", text |-> <<>>, next |-> 0] IN
    IF q[i] \in LiteralFields
    THEN IF lit.end = 0 THEN bad
         ELSE [ok |-> TRUE, field |-> q[i], text |-> lit.text, next |-> lit.end + 1]
    ELSE IF lit.end = 0 \/ lit.end + 1 > Len(q) \/ q[lit.end + 1] # " in parents"
         THEN bad
    ELSE [ok |-> TRUE, field |-> " in parents", text |-> lit.text, next |-> lit.end + 2]

ReadClause(q, i) ==
    IF i > Len(q) THEN [ok |-> FALSE, field |-> "", text |-> <<>>, next |-> 0]
    ELSE IF q[i] \in FlagClauses
         THEN [ok |-> TRUE, field |-> q[i], text |-> <<>>, next |-> i + 1]
    ELSE IF q[i] \in LiteralFields \/ q[i] = Quote
         THEN ClauseWith(q, i, ClauseLiteral(q, i))
    ELSE [ok |-> FALSE, field |-> "", text |-> <<>>, next |-> 0]

\* the reading of a filter from q[i] on, c its clause at q[i]: the clauses
\* read, each as [field, text], or ok = FALSE when the text is not a
\* conjunction of clauses
RECURSIVE ParseFrom(_, _, _)
ParseFrom(q, c, acc) ==
    IF ~c.ok THEN [ok |-> FALSE, clauses |-> <<>>]
    ELSE IF c.next > Len(q)
         THEN [ok |-> TRUE, clauses |-> Append(acc, [field |-> c.field, text |-> c.text])]
    ELSE IF q[c.next] = " and "
         THEN ParseFrom(q, ReadClause(q, c.next + 1),
                        Append(acc, [field |-> c.field, text |-> c.text]))
    ELSE [ok |-> FALSE, clauses |-> <<>>]

ParseFilter(q) == ParseFrom(q, ReadClause(q, 1), <<>>)

\* text occurs in s
Contains(s, text) ==
    \E i \in 1..(Len(s) - Len(text) + 1) : SubSeq(s, i, i + Len(text) - 1) = text

FolderMime == <<"application/vnd.google-apps.folder">>

\* an item of the remote satisfies a clause
Satisfies(f, clause) ==
    CASE clause.field = "mimeType=" -> (f.kind = "folder") <=> (clause.text = FolderMime)
      [] clause.field = "mimeType != " -> (f.kind = "folder") <=> (clause.text # FolderMime)
      [] clause.field = "name=" -> f.name = clause.text
      [] clause.field = "name contains " -> Contains(f.name, clause.text)
      [] clause.field = "fullText contains " ->
             Contains(f.name, clause.text) \/ Contains(f.text, clause.text)
      [] clause.field = " in parents" -> clause.text = <<f.parent>>
      [] clause.field = "trashed=false" -> ~f.trashed
      [] clause.field = "sharedWithMe=true" -> f.shared

\* the first pageSize items
Page(all, pageSize) ==
    SubSeq(all, 1, IF Len(all) < pageSize THEN Len(all) ELSE pageSize)

\* the items a files.list request with the clauses returns, in the order of
\* the remote
ListFiles(tree, clauses, pageSize) ==
    Page(SelectSeq(tree, LAMBDA f :
             \A j \in 1..Len(clauses) : Satisfies(f, clauses[j])),
         pageSize)

\* the id of the n-th folder of the remote
FolderId(n) == "id" \o ToString(n)

\* the folder a files.create request adds
NewFolder(tree, folderName, parentId) ==
    [id |-> FolderId(Len(tree) + 1), name |-> folderName, parent |-> parentId,
     trashed |-> FALSE, kind |-> "folder", shared |-> FALSE, text |-> <<>>]

\* the response to a files.list request whose filter reads as p
ListResponse(tree, p, pageSize) ==
    IF ~p.ok THEN [status |-> "http_error", files |-> <<>>, id |-> ""]
    ELSE [status |-> "ok", files |-> ListFiles(tree, p.clauses, pageSize), id |-> ""]

\* the response to a request: status is "ok", "http_error" (a non-2xx
\* response) or "network_error" (fetch rejects); an unreadable filter is
\* answered with a non-2xx response
Respond(tree, request, outcome) ==
    IF outcome # "ok" THEN [status |-> outcome, files |-> <<>>, id |-> ""]
    ELSE IF request.method = "POST"
         THEN [status |-> "ok", files |-> <<>>,
               id |-> NewFolder(tree, request.name, request.parent).id]
    ELSE ListResponse(tree, ParseFilter(request.q), request.pageSize)

\* a remote that refuses a second folder of the same name under a parent
Apply_idempotent(tree, request, outcome) ==
    IF /\ outcome = "ok"
       /\ request.method = "POST"
       /\ ~\E n \in 1..Len(tree) : /\ tree[n].name = request.name
                                    /\ tree[n].parent = request.parent
    THEN Append(tree, NewFolder(tree, request.name, request.parent))
    ELSE tree

\* the remote tree after a request
Apply(tree, request, outcome) ==
    IF outcome = "ok" /\ request.method = "POST"
    THEN Append(tree, NewFolder(tree, request.name, request.parent))
    ELSE tree

-----------------------------------------------------------------------------
(* Path resolution: resolveFolderPath (url-uploader.ts:738-779),
   createFolderPath, createFolderIfNotExists, checkFolderExists
   (url-uploader.ts:814-913) and SmartFolderCreatorTool.createFolderPath
   (part_002:101-280) *)

\* String.prototype.toLowerCase() on an atom
LowerAtom(a) ==
    CASE a = "Root" -> "root"
      [] a = "My Drive" -> "my drive"
      [] a = "A" -> "a"
      [] OTHER -> a

LowerText(s) == [i \in 1..Len(s) |-> LowerAtom(s[i])]

Id(x) == [tag |-> "id", id |-> x]

IsRootAlias_caseSensitive(folderName) ==
    folderName = <<"root">> \/ folderName = <<"my drive">>

\* folderName.toLowerCase() === 'root' || folderName.toLowerCase() === 'my drive'
IsRootAlias(folderName) ==
    LowerText(folderName) = <<"root">> \/ LowerText(folderName) = <<"my drive">>

\* !path || path.trim() === '' || path.toLowerCase() === 'root' || path.toLowerCase() === '/'
IsRootPath(path) ==
    \/ path = <<>>
    \/ Trim(path) = <<>>
    \/ LowerText(path) = <<"root">>
    \/ LowerText(path) = <<"/">>

PathParts_unfiltered(path) == Split(path, "/")

\* path.split('/').filter((part) => part.trim().length > 0)
PathParts(path) == SelectSeq(Split(path, "/"), LAMBDA part : Len(Trim(part)) > 0)

\* the filter of SmartFolderCreatorTool.checkFolderExists (part_002:236-237)
CreatorFolderQuery(folderName, parentId) ==
    FolderMimeClause \o <<" and ", "name=", Quote>> \o folderName \o <<Quote>>
                     \o ParentConstraint(parentId)

Fns == {"resolveFolderPath", "createFolderPath", "creatorCreateFolderPath"}

\* the loop head of the three functions: root aliases reset the current
\* folder, the first other segment is looked up, the end of the path returns
RECURSIVE Advance(_)
RECURSIVE Advance_createMode(_)
RECURSIVE Advance_keepCurrent(_)
Advance_keepCurrent(c) ==
    IF c.k > Len(c.parts)
    THEN [c EXCEPT !.pc = "return", !.result = Id(c.cur)]
    ELSE IF IsRootAlias(c.parts[c.k])
         THEN Advance_keepCurrent([c EXCEPT !.k = c.k + 1])
    ELSE [c EXCEPT !.pc = IF c.fn = "resolveFolderPath" THEN "lookup" ELSE "check"]

Advance_createMode(c) ==
    IF c.k > Len(c.parts)
    THEN [c EXCEPT !.pc = "return", !.result = Id(c.cur)]
    ELSE IF IsRootAlias(c.parts[c.k])
         THEN Advance_createMode([c EXCEPT !.cur = "root", !.k = c.k + 1])
    ELSE [c EXCEPT !.pc = "check"]

Advance(c) ==
    IF c.k > Len(c.parts)
    THEN [c EXCEPT !.pc = "return", !.result = Id(c.cur)]
    ELSE IF IsRootAlias(c.parts[c.k])
         THEN Advance([c EXCEPT !.cur = "root", !.k = c.k + 1])
    ELSE [c EXCEPT !.pc = IF c.fn = "resolveFolderPath" THEN "lookup" ELSE "check"]

\* the call up to its first request
StartCall(fn, path) ==
    LET c == [fn |-> fn, parts |-> PathParts(path), k |-> 1, cur |-> "root",
              pc |-> "start", result |-> NULL,
              createdFolders |-> <<>>, existingFolders |-> <<>>]
    IN
    IF IsRootPath(path)
    THEN [c EXCEPT !.pc = "return",
                   !.result = IF fn = "creatorCreateFolderPath"
                              THEN [tag |-> "failure", error |-> "INVALID_PATH",
                                    failedAt |-> <<>>]
                              ELSE Id("root")]
    ELSE Advance(c)

PendingRequest_postUnderRoot(c) ==
    IF c.pc = "post"
    THEN [method |-> "POST", q |-> <<>>, pageSize |-> 0,
          name |-> c.parts[c.k], parent |-> "root"]
    ELSE [method |-> "GET",
          q |-> IF c.fn = "creatorCreateFolderPath"
                THEN CreatorFolderQuery(c.parts[c.k], c.cur)
                ELSE FolderInParentQuery(c.parts[c.k], c.cur, FALSE),
          pageSize |-> 1, name |-> <<>>, parent |-> ""]

\* the request a suspended call is waiting for
PendingRequest(c) ==
    IF c.pc = "post"
    THEN [method |-> "POST", q |-> <<>>, pageSize |-> 0,
          name |-> c.parts[c.k], parent |-> c.cur]
    ELSE [method |-> "GET",
          q |-> IF c.fn = "creatorCreateFolderPath"
                THEN CreatorFolderQuery(c.parts[c.k], c.cur)
                ELSE FolderInParentQuery(c.parts[c.k], c.cur, FALSE),
          pageSize |-> 1, name |-> <<>>, parent |-> ""]

\* the call from the response to its pending request up to its next request
Resume(c, resp) ==
    LET found == resp.status = "ok" /\ Len(resp.files) > 0
        next(id) == Advance([c EXCEPT !.cur = id, !.k = c.k + 1])
    IN
    CASE c.pc = "lookup" ->
           \* resolveFolderPath 761-771; a rejected fetch is caught at 775
           IF found THEN next(resp.files[1].id)
           ELSE [c EXCEPT !.pc = "return", !.result = NULL]
      [] c.pc = "check" ->
           \* checkFolderExists returns null for every failure (872-875)
           IF found
           THEN [next(resp.files[1].id) EXCEPT
                   !.existingFolders = Append(c.existingFolders,
                       [name |-> c.parts[c.k], id |-> resp.files[1].id])]
           ELSE [c EXCEPT !.pc = IF c.fn = "createFolderPath" THEN "recheck" ELSE "post"]
      [] c.pc = "recheck" ->
           \* createFolderIfNotExists 816-819
           IF found THEN next(resp.files[1].id)
           ELSE [c EXCEPT !.pc = "post"]
      [] c.pc = "post" ->
           \* createFolderIfNotExists 827-844, createFolderPath 900-904;
           \* SmartFolderCreatorTool.createFolder and createFolderPath 138-158
           IF resp.status = "ok"
           THEN [next(resp.id) EXCEPT
                   !.createdFolders = Append(c.createdFolders,
                       [name |-> c.parts[c.k], id |-> resp.id])]
           ELSE [c EXCEPT !.pc = "return",
                          !.result = IF c.fn = "creatorCreateFolderPath"
                                     THEN [tag |-> "failure",
                                           error |-> "FOLDER_CREATION_FAILED",
                                           failedAt |-> c.parts[c.k]]
                                     ELSE NULL]

\* the outcome of the n-th request of a call under a failure pattern
OutcomeOf(fails, n) == IF n \in fails.at THEN fails.kind ELSE "ok"

\* a call run to its return: the final call state, the remote tree and the
\* requests with their responses
RECURSIVE RunCall(_, _, _, _)
RECURSIVE RunStep(_, _, _, _, _, _)
RunStep(c, tree, fails, log, request, resp) ==
    RunCall(Resume(c, resp), Apply(tree, request, OutcomeOf(fails, Len(log) + 1)),
            fails,
            Append(log, [request |-> request, response |-> resp, segment |-> c.k]))

RunCall(c, tree, fails, log) ==
    IF c.pc = "return" THEN [call |-> c, tree |-> tree, log |-> log]
    ELSE RunStep(c, tree, fails, log, PendingRequest(c),
                 Respond(tree, PendingRequest(c), OutcomeOf(fails, Len(log) + 1)))

-----------------------------------------------------------------------------
(* Calls of the path functions against a remote tree *)

Pieces == { <<>>, <<" ">>, <<"A">>, <<"Root">>, <<"My Drive">> }

\* the paths of n pieces separated by '/'
RECURSIVE PathsOf(_)
PathsOf(n) ==
    IF n = 1 THEN Pieces
    ELSE {p \o <<"/">> \o q : p \in PathsOf(n - 1), q \in Pieces}

Paths == UNION {PathsOf(n) : n \in 1..MaxPieces}

Folder(n, name, parent, trashed) ==
    [id |-> FolderId(n), name |-> name, parent |-> parent, trashed |-> trashed,
     kind |-> "folder", shared |-> FALSE, text |-> <<>>]

InitialRemotes ==
    { <<>>,
      <<Folder(1, <<"A">>, "root", FALSE)>>,
      <<Folder(1, <<"A">>, "root", FALSE), Folder(2, <<"A">>, FolderId(1), FALSE)>>,
      <<Folder(1, <<"A">>, "root", TRUE)>>,
      <<Folder(1, <<"A">>, "root", FALSE), Folder(2, <<"A">>, "root", FALSE)>> }

\* which requests of a call fail, and how
FailPatterns ==
    {[at |-> {}, kind |-> "ok"]} \cup
    {[at |-> S, kind |-> k] : S \in {{1}, {2}, {3}, {1, 2}},
                              k \in {"http_error", "network_error"}}

AllOk(log) == \A j \in 1..Len(log) : log[j].response.status = "ok"

PathCallRun(fn, run) ==
    /\ ncalls < MaxCalls
    /\ ncalls' = ncalls + 1
    /\ remote' = run.tree
    /\ ret' = [op |-> fn, result |-> run.call.result, log |-> run.log,
               createdFolders |-> run.call.createdFolders,
               existingFolders |-> run.call.existingFolders,
               before |-> remote, expect |-> made]
    /\ made' = IF fn = "createFolderPath" /\ run.call.result # NULL
               THEN [result |-> run.call.result, clean |-> AllOk(run.log)]
               ELSE IF run.tree # remote THEN NoneMade ELSE made
    /\ UNCHANGED <<cacheVars, folderPath, otherPath, args, calls>>

PathCall(fn, fails) ==
    PathCallRun(fn, RunCall(StartCall(fn, folderPath), remote, fails, <<>>))

resolveFolderPath == \E fails \in FailPatterns : PathCall("resolveFolderPath", fails)

createFolderPath == \E fails \in FailPatterns : PathCall("createFolderPath", fails)

creatorCreateFolderPath ==
    \E fails \in FailPatterns : PathCall("creatorCreateFolderPath", fails)

InitPath ==
    /\ EmptyCache
    /\ remote \in InitialRemotes
    /\ folderPath \in Paths
    /\ otherPath = folderPath
    /\ made = NoneMade
    /\ ncalls = 0
    /\ args = NoArgs
    /\ calls = <<>>
    /\ ret = [op |-> "none"]

NextPath ==
    \/ resolveFolderPath
    \/ createFolderPath
    \/ creatorCreateFolderPath

SpecPath == InitPath /\ [][NextPath]_vars

-----------------------------------------------------------------------------
(* Two spellings of a path against the same remote tree *)

\* the non-empty segments of a path, in the words of the specification
NonEmptySegments(p) == SelectSeq(Split(p, "/"), LAMBDA seg : seg # <<>>)

Summary(run) == [result |-> run.call.result, log |-> run.log]

BothSpellings(fn, fails) ==
    /\ ret.op = "none"
    /\ ret' = [op |-> "spellings", fn |-> fn,
               a |-> Summary(RunCall(StartCall(fn, folderPath), remote, fails, <<>>)),
               b |-> Summary(RunCall(StartCall(fn, otherPath), remote, fails, <<>>))]
    /\ UNCHANGED <<cacheVars, pathVars>>

resolveBothSpellings == \E fails \in FailPatterns : BothSpellings("resolveFolderPath", fails)

createBothSpellings == \E fails \in FailPatterns : BothSpellings("createFolderPath", fails)

InitSpellings ==
    /\ EmptyCache
    /\ folderPath \in Paths
    /\ otherPath \in {q \in Paths : NonEmptySegments(q) = NonEmptySegments(folderPath)}
    /\ remote \in InitialRemotes
    /\ made = NoneMade
    /\ ncalls = 0
    /\ args = NoArgs
    /\ calls = <<>>
    /\ ret = [op |-> "none"]

NextSpellings ==
    \/ resolveBothSpellings
    \/ createBothSpellings

SpecSpellings == InitSpellings /\ [][NextSpellings]_vars

-----------------------------------------------------------------------------
(* Searches by name: findFolderByName, findFileByName,
   searchFoldersWithFallback, performPrimarySearch, performFallbackSearch,
   checkFileExists (url-uploader.ts:433-523, 670-733, 784-809), their earlier
   versions (part_001:48-127, 263-312, 362-380), the class methods of
   SmartFolderFinderTool (smart-tools.ts:516-660) and
   HierarchicalFolderNavigatorTool.searchInSharedFiles (smart-tools.ts:340-384) *)

\* "utils": url-uploader.ts from line 366; "legacy": part_001;
\* "finder": the class methods of smart-tools.ts from line 392
Versions == {"utils", "legacy", "finder"}

\* a name as a version embeds it in a filter
Embedded(version, name) == IF version = "utils" THEN EscapeQuotes(name) ELSE name

\* the trashed filter is added by the utils version only
Filtered(version, query, includeTrashed) ==
    IF version = "utils" THEN addTrashedFilter(query, includeTrashed) ELSE query

\* parentConstraint / folderConstraint of the callers: '' without a folder id
OptionalParent(parentId) == IF parentId = "" THEN <<>> ELSE ParentConstraint(parentId)

ListRequest(q, pageSize) ==
    [method |-> "GET", q |-> q, pageSize |-> pageSize, name |-> <<>>, parent |-> ""]

\* makeGoogleDriveRequest throws: a rejected fetch in every version, a non-2xx
\* response in part_001:184-187 and smart-tools.ts:446-449; url-uploader.ts:582-594
\* returns the text of handleGoogleAPIResponse, which has no files
Throws(version, resp) ==
    \/ resp.status = "network_error"
    \/ resp.status = "http_error" /\ version # "utils"

\* one files.list request and what its caller reads: responseData.files || []
Thrown == [tag |-> "throw"]

Fetched(version, request, resp, name) ==
    [entry |-> [request |-> request, response |-> resp, embeds |-> name],
     thrown |-> Throws(version, resp),
     files |-> IF resp.status = "ok" THEN resp.files ELSE <<>>]

Fetch(version, tree, q, pageSize, outcome, name) ==
    Fetched(version, ListRequest(q, pageSize),
            Respond(tree, ListRequest(q, pageSize), outcome), name)

SearchResult_reversed(f, searchMethod) ==
    [entry |-> f.entry,
     result |-> IF f.thrown THEN Thrown
                ELSE [tag |-> "ok",
                      files |-> [i \in 1..Len(f.files) |-> f.files[Len(f.files) + 1 - i]],
                      searchMethod |-> searchMethod]]

\* what performPrimarySearch and performFallbackSearch return
SearchResult(f, searchMethod) ==
    [entry |-> f.entry,
     result |-> IF f.thrown THEN Thrown
                ELSE [tag |-> "ok", files |-> f.files, searchMethod |-> searchMethod]]

\* what findFolderByName and findFileByName return
Counted(f) ==
    [log |-> <<f.entry>>,
     result |-> IF f.thrown THEN Thrown
                ELSE [tag |-> "ok", files |-> f.files, count |-> Len(f.files)]]

\* what checkFileExists and checkFolderExists return
FirstOrNull(f) ==
    [log |-> <<f.entry>>,
     result |-> IF ~f.thrown /\ Len(f.files) > 0 THEN f.files[1] ELSE NULL]

performPrimarySearch_contains(version, tree, outcome, folderName, parentConstraint, exactMatch, maxResults, includeTrashed) ==
    LET escapedFolderName == Embedded(version, folderName)
        searchQuery ==
            FolderMimeClause
            \o <<" and ", "name contains ", Quote>>
            \o escapedFolderName \o <<Quote>> \o parentConstraint
        searchMethod == IF exactMatch THEN "exact_match" ELSE "contains_match"
        f == Fetch(version, tree, Filtered(version, searchQuery, includeTrashed),
                   maxResults, outcome, folderName)
    IN [entry |-> f.entry,
        result |-> IF f.thrown THEN Thrown
                   ELSE [tag |-> "ok", files |-> f.files, searchMethod |-> searchMethod]]

performPrimarySearch(version, tree, outcome, folderName, parentConstraint, exactMatch, maxResults, includeTrashed) ==
    LET escapedFolderName == Embedded(version, folderName)
        searchQuery ==
            FolderMimeClause
            \o <<" and ", IF exactMatch THEN "name=" ELSE "name contains ", Quote>>
            \o escapedFolderName \o <<Quote>> \o parentConstraint
        searchMethod == IF exactMatch THEN "exact_match" ELSE "contains_match"
    IN SearchResult(Fetch(version, tree,
                          Filtered(version, searchQuery, includeTrashed),
                          maxResults, outcome, folderName),
                    searchMethod)

performFallbackSearch(version, tree, outcome, folderName, parentConstraint, maxResults, includeTrashed) ==
    LET escapedFolderName == Embedded(version, folderName)
        searchQuery ==
            FolderMimeClause \o <<" and ", "fullText contains ", Quote>>
            \o escapedFolderName \o <<Quote>> \o parentConstraint
    IN SearchResult(Fetch(version, tree,
                          Filtered(version, searchQuery, includeTrashed),
                          maxResults, outcome, folderName),
                    "fulltext_fuzzy")

NeedsFallback_ignoreExact(searchResults, exactMatch, useFullTextSearch) ==
    Len(searchResults.files) = 0 /\ useFullTextSearch

\* (!searchResults.files || searchResults.files.length === 0) && !exactMatch
\* && useFullTextSearch
NeedsFallback(searchResults, exactMatch, useFullTextSearch) ==
    Len(searchResults.files) = 0 /\ ~exactMatch /\ useFullTextSearch

\* searchFoldersWithFallback, and lines 531-534 of SmartFolderFinderTool._call
WithFallback(first, second, exactMatch, useFullTextSearch) ==
    IF first.result = Thrown
    THEN [result |-> Thrown, primary |-> Thrown, log |-> <<first.entry>>]
    ELSE IF NeedsFallback(first.result, exactMatch, useFullTextSearch)
         THEN [result |-> second.result, primary |-> first.result,
               log |-> <<first.entry, second.entry>>]
    ELSE [result |-> first.result, primary |-> first.result, log |-> <<first.entry>>]

SearchWithFallback(version, tree, fails, a) ==
    WithFallback(
        performPrimarySearch(version, tree, OutcomeOf(fails, 1), a.folderName,
            OptionalParent(a.parentId), a.exactMatch, a.maxResults, a.includeTrashed),
        performFallbackSearch(version, tree, OutcomeOf(fails, 2), a.folderName,
            OptionalParent(a.parentId), a.maxResults, a.includeTrashed),
        a.exactMatch, a.useFullTextSearch)

\* findFolderByName (url-uploader.ts:433-460, part_001:48-66, smart-tools.ts:642-660)
FindFolderByName(version, tree, outcome, folderName, exactMatch, includeTrashed) ==
    LET escapedFolderName == Embedded(version, folderName)
        baseQuery ==
            FolderMimeClause
            \o <<" and ", IF exactMatch THEN "name=" ELSE "name contains ", Quote>>
            \o escapedFolderName \o <<Quote>>
    IN Counted(Fetch(version, tree, Filtered(version, baseQuery, includeTrashed), 10,
                     outcome, folderName))

\* findFileByName (url-uploader.ts:465-503, part_001:71-105)
FindFileByName(version, tree, outcome, fileName, exactMatch, folderId, maxResults, includeTrashed) ==
    LET folderConstraint == OptionalParent(folderId)
        escapedFileName == Embedded(version, fileName)
        searchQuery ==
            <<IF exactMatch THEN "name=" ELSE "name contains ", Quote>>
            \o escapedFileName \o <<Quote>> \o folderConstraint
            \o <<" and ", "mimeType != ", Quote, "application/vnd.google-apps.folder",
                 Quote>>
    IN Counted(Fetch(version, tree, Filtered(version, searchQuery, includeTrashed),
                     maxResults, outcome, fileName))

\* checkFileExists (url-uploader.ts:784-809, part_001:362-380)
CheckFileExists(version, tree, outcome, fileName, folderId, includeTrashed) ==
    LET escapedFileName == Embedded(version, fileName)
        baseQuery == <<"name=", Quote>> \o escapedFileName
                     \o <<Quote, " and ", Quote, folderId, Quote, " in parents">>
    IN FirstOrNull(Fetch(version, tree, Filtered(version, baseQuery, includeTrashed),
                         1, outcome, fileName))

\* what searchInSharedFiles returns (smart-tools.ts:359-384)
SharedFiles(f) ==
    [log |-> <<f.entry>>,
     result |-> [tag |-> "ok", success |-> ~f.thrown, files |-> f.files]]

\* HierarchicalFolderNavigatorTool.searchInSharedFiles (smart-tools.ts:340-384)
SearchInSharedFiles(tree, outcome, parentFolderName, maxResults) ==
    LET query ==
            <<"sharedWithMe=true", " and ", "mimeType != ", Quote,
              "application/vnd.google-apps.folder", Quote>>
            \o (IF parentFolderName # <<>>
                THEN <<" and ", "name contains ", Quote>> \o parentFolderName
                     \o <<Quote>>
                ELSE <<>>)
    IN SharedFiles(Fetch("utils", tree, query, maxResults, outcome, parentFolderName))

\* checkFolderExists (url-uploader.ts:850-876, part_001:410-434)
CheckFolderExists(version, tree, outcome, folderName, parentId, includeTrashed) ==
    LET searchQuery == IF version = "utils"
                       THEN FolderInParentQuery(folderName, parentId, includeTrashed)
                       ELSE CreatorFolderQuery(folderName, parentId)
    IN FirstOrNull(Fetch(version, tree, searchQuery, 1, outcome, folderName))

\* resolveFolderPath of a path of one segment, each request with its segment
NamedRun(run) ==
    [log |-> [k \in 1..Len(run.log) |->
                 [request |-> run.log[k].request, response |-> run.log[k].response,
                  embeds |-> run.call.parts[run.log[k].segment]]],
     result |-> run.call.result]

ResolveFolderName(tree, fails, folderName) ==
    NamedRun(RunCall(StartCall("resolveFolderPath", folderName), tree, fails, <<>>))

\* the outcome of the only request of a call
OneOutcome == {"ok", "http_error", "network_error"}

\* a text returned by makeGoogleDriveRequest or by a tool is a sequence of
\* pieces: Json(x) is the text JSON.stringify(x), Text(s) is the text s
Json(x) == [json |-> x]

Text(s) == [text |-> s]

TOOL_ARGS_PREFIX == Text("\n\n----FLOWISE_TOOL_ARGS----\n\n")

\* `Google Drive API Error ${response.status}: ${response.statusText} -
\* ${errorText}` (url-uploader.ts:592, part_001:186, smart-tools.ts:448); the
\* atoms "status", "statusText" and "errorText" are the three values of the
\* response
ApiErrorMessage ==
    <<"Google Drive API Error ", "status", ": ", "statusText", " - ", "errorText">>

\* the object whose JSON handleGoogleAPIResponse returns for a non-2xx
\* response that is no permission error (part_003:412-419)
ApiErrorObject ==
    [message |-> <<"Error in the Google API operation: ">> \o ApiErrorMessage,
     canAccess |-> FALSE, reason |-> "api_error", statusCode |-> "status",
     originalError |-> ApiErrorMessage]

\* what makeGoogleDriveRequest delivers to its caller for a response
\* (url-uploader.ts:577-597, part_001:180-190, smart-tools.ts:442-452): an
\* Error thrown, or a text returned
Delivered(version, resp, params) ==
    IF resp.status = "network_error"
    THEN [tag |-> "throw", message |-> <<"fetch failed">>]
    ELSE IF resp.status = "http_error"
         THEN IF version = "utils"
              THEN [tag |-> "return", text |-> <<Json(ApiErrorObject)>>]
              ELSE [tag |-> "throw", message |-> ApiErrorMessage]
    ELSE [tag |-> "return",
          text |-> <<Json([files |-> resp.files]), TOOL_ARGS_PREFIX, Json(params)>>]

\* a request sent through makeGoogleDriveRequest and what is delivered
RequestCall(version, f) ==
    /\ ret' = [op |-> "makeGoogleDriveRequest", version |-> version,
               result |-> Delivered(version, f.entry.response, [x \in {} |-> x]),
               log |-> <<f.entry>>]
    /\ UNCHANGED <<cacheVars, pathVars>>

\* makeGoogleDriveRequest with the files.list request of findFolderByName
makeGoogleDriveRequest ==
    \E version \in Versions, outcome \in OneOutcome :
        RequestCall(version,
            Fetch(version, remote,
                  Filtered(version,
                           FolderMimeClause \o <<" and ", "name=", Quote>>
                           \o Embedded(version, args.folderName) \o <<Quote>>,
                           args.includeTrashed),
                  10, outcome, args.folderName))

SearchCall(op, version, run) ==
    /\ ret' = [op |-> op, version |-> version, result |-> run.result,
               log |-> run.log]
    /\ UNCHANGED <<cacheVars, pathVars>>

SearchWithFallbackCall(version, run) ==
    /\ ret' = [op |-> "searchFoldersWithFallback", version |-> version,
               result |-> run.result, log |-> run.log, primary |-> run.primary]
    /\ UNCHANGED <<cacheVars, pathVars>>

searchFoldersWithFallback ==
    \E version \in Versions, fails \in FailPatterns :
        SearchWithFallbackCall(version, SearchWithFallback(version, remote, fails, args))

findFolderByName ==
    \E version \in Versions, outcome \in OneOutcome :
        SearchCall("findFolderByName", version,
                   FindFolderByName(version, remote, outcome, args.folderName,
                                    args.exactMatch, args.includeTrashed))

findFileByName ==
    \E version \in {"utils", "legacy"}, outcome \in OneOutcome :
        SearchCall("findFileByName", version,
                   FindFileByName(version, remote, outcome, args.folderName,
                                  args.exactMatch, args.parentId, args.maxResults,
                                  args.includeTrashed))

checkFileExists ==
    \E version \in {"utils", "legacy"}, outcome \in OneOutcome :
        SearchCall("checkFileExists", version,
                   CheckFileExists(version, remote, outcome, args.folderName,
                                   IF args.parentId = "" THEN "root" ELSE args.parentId,
                                   args.includeTrashed))

checkFolderExists ==
    \E version \in {"utils", "legacy"}, outcome \in OneOutcome :
        SearchCall("checkFolderExists", version,
                   CheckFolderExists(version, remote, outcome, args.folderName,
                                     IF args.parentId = "" THEN "root" ELSE args.parentId,
                                     args.includeTrashed))

resolveFolderName ==
    \E fails \in FailPatterns :
        SearchCall("resolveFolderPath", "utils",
                   ResolveFolderName(remote, fails, args.folderName))

searchInSharedFiles ==
    \E outcome \in OneOutcome :
        SearchCall("searchInSharedFiles", "utils",
                   SearchInSharedFiles(remote, outcome, args.folderName,
                                       args.maxResults))

\* the names the calls search for
Names == { <<"A">>, <<"O", Quote, "B">>, <<"D">> }

Item(n, kind, name, parent, trashed, shared, text) ==
    [id |-> FolderId(n), name |-> name, parent |-> parent, trashed |-> trashed,
     kind |-> kind, shared |-> shared, text |-> text]

SearchRemotes ==
    { <<>>,
      << Item(1, "folder", <<"A">>, "root", FALSE, FALSE, <<>>),
         Item(2, "folder", <<"O", Quote, "B">>, FolderId(1), FALSE, FALSE, <<>>),
         Item(3, "folder", <<"C">>, "root", FALSE, FALSE, <<"D">>),
         Item(4, "file", <<"A">>, FolderId(1), FALSE, TRUE, <<>>),
         Item(5, "file", <<"O", Quote, "B">>, "root", FALSE, TRUE, <<>>),
         Item(6, "folder", <<"A">>, "root", TRUE, FALSE, <<>>) >> }

\* the names of the searches: also a name that holds the text 'trashed'
SearchNames == Names \cup { <<"trashed">> }

SearchArgs ==
    [folderName : SearchNames, parentId : {"", FolderId(1)}, exactMatch : BOOLEAN,
     useFullTextSearch : BOOLEAN, includeTrashed : BOOLEAN, maxResults : {1, 10}]

InitSearch ==
    /\ EmptyCache
    /\ remote \in SearchRemotes
    /\ args \in SearchArgs
    /\ folderPath = args.folderName
    /\ otherPath = folderPath
    /\ made = NoneMade
    /\ ncalls = 0
    /\ calls = <<>>
    /\ ret = [op |-> "none"]

NextSearch ==
    \/ searchFoldersWithFallback
    \/ findFolderByName
    \/ findFileByName
    \/ checkFileExists
    \/ checkFolderExists
    \/ resolveFolderName
    \/ searchInSharedFiles
    \/ makeGoogleDriveRequest

SpecSearch == InitSearch /\ [][NextSearch]_vars

-----------------------------------------------------------------------------
(* The tools: SmartFolderFinderTool._call (smart-tools.ts:57-141),
   HierarchicalFolderNavigatorTool._call (smart-tools.ts:175-384),
   SmartFolderCreatorTool._call (smart-folder-creator.ts:34-115),
   SmartFileUrlTool._call (smart-file-url.ts:474-588) and
   URLFileUploaderTool._call (url-uploader.ts:59-189).

   The text a tool returns is a sequence of the pieces Json(x) and Text(s). *)

\* JSON.stringify(result) + TOOL_ARGS_PREFIX + JSON.stringify(params)
ToolOutput(result, params) == <<Json(result), TOOL_ARGS_PREFIX, Json(params)>>

\* `${prefix}${error}` for an Error with the message: "Error: " + message
ErrorString(prefix, message) == <<Text(prefix), Text("Error: "), Text(message)>>

\* the message of the error of a rejected fetch
FetchFailed == "fetch failed"

\* this.accessToken of the tools
ToolToken == <<"p">> \o A8

\* a call in progress: the remote tree, the failure pattern and the requests
\* made so far
ToolState(tree, fails) == [tree |-> tree, fails |-> fails, log |-> <<>>]

\* the outcome of the next request of a call in progress
NextOutcome(st) == OutcomeOf(st.fails, Len(st.log) + 1)

\* the outcome of the request after the next
SecondOutcome(st) == OutcomeOf(st.fails, Len(st.log) + 2)

\* the call after the requests of a function it awaited
After(st, log) == [st EXCEPT !.log = st.log \o log]

\* the call after a function that changes the remote tree
AfterRun(st, run) == [st EXCEPT !.log = run.log, !.tree = run.tree]

\* the call returns the text; writes are its setCacheEntry calls, in order,
\* and fetched the urls it downloaded from
Returned(st, value) ==
    [value |-> value, tree |-> st.tree, log |-> st.log, writes |-> <<>>,
     fetched |-> <<>>]

\* Array.prototype.join(sep) on a list of texts
RECURSIVE Join(_, _)
Join(list, sep) ==
    IF list = <<>> THEN <<>>
    ELSE IF Len(list) = 1 THEN list[1]
    ELSE list[1] \o <<sep>> \o Join(Tail(list), sep)

\* new Map(folders.map((f) => [f.id, f])): the last folder of an id wins
FolderMapHas(folders, id) == \E i \in 1..Len(folders) : folders[i].id = id

FolderMapGet(folders, id) ==
    folders[CHOOSE i \in 1..Len(folders) :
                /\ folders[i].id = id
                /\ \A j \in (i + 1)..Len(folders) : folders[j].id # id]

\* one evaluation of the loop condition of buildFolderPath and, when it
\* holds, one pass of the loop body (url-uploader.ts:532-539); a folder
\* without parents has parent ""
BuildStep(s, folders) ==
    IF s.currentId = "" \/ ~FolderMapHas(folders, s.currentId)
    THEN [s EXCEPT !.done = TRUE]
    ELSE IF \/ FolderMapGet(folders, s.currentId).name = <<"My Drive">>
            \/ FolderMapGet(folders, s.currentId).parent = ""
         THEN [s EXCEPT !.done = TRUE, !.iterations = s.iterations + 1]
    ELSE [s EXCEPT !.path = <<FolderMapGet(folders, s.currentId).name>> \o s.path,
                   !.currentId = FolderMapGet(folders, s.currentId).parent,
                   !.iterations = s.iterations + 1]

BuildStart(folderId) ==
    [currentId |-> folderId, path |-> <<>>, done |-> FALSE, iterations |-> 0]

RECURSIVE BuildLoop(_, _)
BuildLoop(s, folders) ==
    IF s.done THEN s ELSE BuildLoop(BuildStep(s, folders), folders)

\* buildFolderPath (url-uploader.ts:527-543) on a list it terminates on
buildFolderPath(folderId, folders) ==
    Join(BuildLoop(BuildStart(folderId), folders).path, "/")

\* the cache after clearExpiredCache (url-uploader.ts:657-665)
Swept(m, time) == SelectSeq(m, LAMBDA e : ~(time > e.expiresAt))

\* the cache after the setCacheEntry calls of a tool, in order
RECURSIVE WriteAll(_, _)
WriteAll(m, writes) ==
    IF writes = <<>> THEN m
    ELSE WriteAll(MapSet(m, CacheEntry(ToolToken, writes[1].folderId, writes[1].data)),
                  Tail(writes))

-----------------------------------------------------------------------------
(* SmartFolderFinderTool._call (smart-tools.ts:57-141) *)

\* line 139
FinderCaught(st) ==
    Returned(st, ErrorString("Error searching folders: ", FetchFailed))

\* lines 97-106: one folder of enhancedFolders
Enhanced(folder, allFolders, searchMethod) ==
    [id |-> folder.id, name |-> folder.name, parent |-> folder.parent,
     path |-> buildFolderPath(folder.id, allFolders),
     fullPath |-> IF folder.parent # ""
                  THEN buildFolderPath(folder.id, allFolders) \o <<"/">> \o folder.name
                  ELSE folder.name,
     searchMethod |-> searchMethod]

\* lines 108-116: the setCacheEntry call for a folder of enhancedFolders
FinderWrite(folder) ==
    [folderId |-> <<folder.id>>,
     data |-> [id |-> folder.id, name |-> folder.name,
               parentId |-> IF folder.parent # "" THEN folder.parent ELSE "",
               path |-> folder.fullPath]]

\* lines 97-129
FinderSuccess(st, p, searchResults, enhancedFolders) ==
    [Returned(st, ToolOutput([success |-> TRUE, folders |-> enhancedFolders,
                              count |-> Len(enhancedFolders),
                              searchQuery |-> p.folderName,
                              searchMethod |-> searchResults.searchMethod,
                              exactMatch |-> p.exactMatch], p))
     EXCEPT !.writes = [i \in 1..Len(enhancedFolders) |->
                           FinderWrite(enhancedFolders[i])]]

\* lines 92-96: the list of all folders; a non-2xx response has no files
FinderAllFolders(st, p, searchResults, f) ==
    IF f.thrown THEN FinderCaught(After(st, <<f.entry>>))
    ELSE FinderSuccess(After(st, <<f.entry>>), p, searchResults,
             [i \in 1..Len(searchResults.files) |->
                 Enhanced(searchResults.files[i], f.files, searchResults.searchMethod)])

\* lines 83-136
FinderSearched(st, p, searchResults) ==
    IF searchResults = Thrown THEN FinderCaught(st)
    ELSE IF Len(searchResults.files) > 0
         THEN FinderAllFolders(st, p, searchResults,
                  Fetch("utils", st.tree,
                        addTrashedFilter(FolderMimeClause, p.includeTrashed),
                        1000, NextOutcome(st), <<>>))
    ELSE Returned(st, ToolOutput([success |-> FALSE, folders |-> <<>>, count |-> 0,
                                  searchQuery |-> p.folderName,
                                  searchMethod |-> searchResults.searchMethod,
                                  exactMatch |-> p.exactMatch], p))

FinderAfterSearch(st, p, run) == FinderSearched(After(st, run.log), p, run.result)

\* lines 73-81
FinderSearch(st, p, parentConstraint) ==
    FinderAfterSearch(st, p,
        WithFallback(
            performPrimarySearch("utils", st.tree, NextOutcome(st), p.folderName,
                parentConstraint, p.exactMatch, p.maxResults, p.includeTrashed),
            performFallbackSearch("utils", st.tree, SecondOutcome(st), p.folderName,
                parentConstraint, p.maxResults, p.includeTrashed),
            p.exactMatch, p.useFullTextSearch))

\* lines 66-70
FinderParent(st, p, parentResult) ==
    IF parentResult.result = Thrown THEN FinderCaught(After(st, parentResult.log))
    ELSE FinderSearch(After(st, parentResult.log), p,
             IF Len(parentResult.result.files) > 0
             THEN ParentConstraint(parentResult.result.files[1].id)
             ELSE <<>>)

\* lines 62-71
SmartFolderFinder(st, p) ==
    IF p.parentFolderId # ""
    THEN FinderSearch(st, p, ParentConstraint(p.parentFolderId))
    ELSE IF p.parentFolderName # <<>>
         THEN FinderParent(st, p,
                  FindFolderByName("utils", st.tree, NextOutcome(st),
                                   p.parentFolderName, TRUE, p.includeTrashed))
    ELSE FinderSearch(st, p, <<>>)

-----------------------------------------------------------------------------
(* HierarchicalFolderNavigatorTool._call (smart-tools.ts:175-384) *)

\* a private method of a tool throws an Error with the message
Raise(st, message) == [st |-> st, thrown |-> TRUE, message |-> message, result |-> NULL]

\* a private method of a tool returns the text of the result and the params
Done(st, result) == [st |-> st, thrown |-> FALSE, message |-> "", result |-> result]

\* lines 206-218
RootListed(st, f) ==
    IF f.thrown THEN Raise(After(st, <<f.entry>>), FetchFailed)
    ELSE Done(After(st, <<f.entry>>),
              [success |-> TRUE, operation |-> "listRoot", folders |-> f.files,
               count |-> Len(f.files)])

\* listRootFolders (lines 197-219)
ListRootFolders(st, p) ==
    RootListed(st, Fetch("utils", st.tree,
                   addTrashedFilter(FolderMimeClause \o ParentConstraint("root"),
                                    p.includeTrashed),
                   p.maxResults, NextOutcome(st), <<>>))

\* lines 252-261
SubfoldersListed(st, p, parentId, f) ==
    IF f.thrown THEN Raise(After(st, <<f.entry>>), FetchFailed)
    ELSE Done(After(st, <<f.entry>>),
              [success |-> TRUE, operation |-> "listSubfolders",
               parentFolderId |-> parentId, parentFolderName |-> p.parentFolderName,
               folders |-> f.files, count |-> Len(f.files)])

\* lines 240-251
SubfoldersOf(st, p, parentId) ==
    IF parentId = ""
    THEN Raise(st, "Required parentFolderId or parentFolderName")
    ELSE SubfoldersListed(st, p, parentId,
             Fetch("utils", st.tree,
                   addTrashedFilter(FolderMimeClause \o ParentConstraint(parentId),
                                    p.includeTrashed),
                   p.maxResults, NextOutcome(st), <<>>))

\* lines 224-237
SubfoldersByName(st, p, findResult) ==
    IF findResult.result = Thrown THEN Raise(After(st, findResult.log), FetchFailed)
    ELSE IF Len(findResult.result.files) > 0
         THEN SubfoldersOf(After(st, findResult.log), p, findResult.result.files[1].id)
    ELSE Done(After(st, findResult.log),
              [success |-> FALSE, message |-> "Parent folder not found",
               folders |-> <<>>, count |-> 0])

\* listSubfolders (lines 221-262)
ListSubfolders(st, p) ==
    IF p.parentFolderId = "" /\ p.parentFolderName # <<>>
    THEN SubfoldersByName(st, p,
             FindFolderByName("utils", st.tree, NextOutcome(st), p.parentFolderName,
                              TRUE, p.includeTrashed))
    ELSE SubfoldersOf(st, p, p.parentFolderId)

FoldersOf(contents) == SelectSeq(contents, LAMBDA item : item.kind = "folder")

FilesAmong(contents) == SelectSeq(contents, LAMBDA item : item.kind # "folder")

\* lines 302-317
ContentsListed(st, p, folderId, f) ==
    IF f.thrown THEN Raise(After(st, <<f.entry>>), FetchFailed)
    ELSE Done(After(st, <<f.entry>>),
              [success |-> TRUE, operation |-> "listContents", folderId |-> folderId,
               folderName |-> p.parentFolderName,
               contents |-> IF p.includeFiles THEN f.files ELSE FoldersOf(f.files),
               folders |-> FoldersOf(f.files), files |-> FilesAmong(f.files),
               folderCount |-> Len(FoldersOf(f.files)),
               fileCount |-> Len(FilesAmong(f.files)),
               totalCount |-> Len(f.files)])

\* lines 290-301
ContentsOf(st, p, folderId) ==
    IF folderId = ""
    THEN Raise(st, "Required parentFolderId or parentFolderName")
    ELSE ContentsListed(st, p, folderId,
             Fetch("utils", st.tree,
                   addTrashedFilter(<<Quote, folderId, Quote, " in parents">>,
                                    p.includeTrashed),
                   p.maxResults, NextOutcome(st), <<>>))

\* lines 273-287
ContentsByName(st, p, findResult) ==
    IF findResult.result = Thrown THEN Raise(After(st, findResult.log), FetchFailed)
    ELSE IF Len(findResult.result.files) > 0
         THEN ContentsOf(After(st, findResult.log), p, findResult.result.files[1].id)
    ELSE Done(After(st, findResult.log),
              [success |-> FALSE, message |-> "Folder not found",
               contents |-> <<>>, count |-> 0])

\* lines 265-267, 340-384
SharedSearched(st, shared) ==
    Done(After(st, shared.log),
         [success |-> shared.result.success, operation |-> "listContents",
          searchInShared |-> TRUE, contents |-> shared.result.files,
          files |-> shared.result.files, folders |-> <<>>])

\* listFolderContents (lines 264-318)
ListFolderContents(st, p) ==
    IF p.searchInShared
    THEN SharedSearched(st, SearchInSharedFiles(st.tree, NextOutcome(st),
                                                p.parentFolderName, p.maxResults))
    ELSE IF p.parentFolderId = "" /\ p.parentFolderName # <<>>
         THEN ContentsByName(st, p,
                  FindFolderByName("utils", st.tree, NextOutcome(st),
                                   p.parentFolderName, TRUE, p.includeTrashed))
    ELSE ContentsOf(st, p, p.parentFolderId)

\* lines 324-331
StructureOf(rootResult) ==
    IF rootResult.thrown THEN rootResult
    ELSE Done(rootResult.st,
              [success |-> TRUE, operation |-> "getFolderStructure",
               structure |-> rootResult.result.folders])

\* getFolderStructure (lines 320-334)
GetFolderStructure(st, p) == StructureOf(ListRootFolders(st, p))

\* lines 181-194: what the method returned, or the text of the catch block
NavigatorReturn(r, p) ==
    IF r.thrown
    THEN Returned(r.st, ErrorString("Error in hierarchical navigation: ", r.message))
    ELSE Returned(r.st, ToolOutput(r.result, p))

\* lines 181-191
NavigatorSwitch(st, p) ==
    CASE p.operation = "listRoot" -> ListRootFolders(st, p)
      [] p.operation = "listSubfolders" -> ListSubfolders(st, p)
      [] p.operation = "listContents" -> ListFolderContents(st, p)
      [] p.operation = "getFolderStructure" -> GetFolderStructure(st, p)
      [] OTHER -> Raise(st, "Unsupported operation")

HierarchicalFolderNavigator(st, p) == NavigatorReturn(NavigatorSwitch(st, p), p)

-----------------------------------------------------------------------------
(* SmartFolderCreatorTool._call (smart-folder-creator.ts:34-153) *)

\* createFolderIfNotExists(accessToken, folderName, parentId)
\* (url-uploader.ts:814-845) as a call of the path machine: its existence
\* check, then its files.create request
CreateIfNotExistsCall(folderName, parentId) ==
    [fn |-> "createFolderPath", parts |-> <<folderName>>, k |-> 1, cur |-> parentId,
     pc |-> "recheck", result |-> NULL, createdFolders |-> <<>>,
     existingFolders |-> <<>>]

CreateFolderIfNotExists(st, folderName, parentId) ==
    RunCall(CreateIfNotExistsCall(folderName, parentId), st.tree, st.fails, st.log)

\* lines 40-60
CreatorPathCreated(st, p, folderId) ==
    IF folderId = NULL
    THEN Returned(st, ToolOutput([success |-> FALSE, error |-> "FOLDER_CREATION_FAILED",
                                  folderPath |-> p.folderPath,
                                  message |-> <<"Could not create folder path: ">>
                                              \o p.folderPath], p))
    ELSE Returned(st, ToolOutput([success |-> TRUE, folderId |-> folderId.id,
                                  folderPath |-> p.folderPath,
                                  alreadyExisted |-> FALSE], p))

CreatorPathRun(st, p, run) == CreatorPathCreated(AfterRun(st, run), p, run.call.result)

\* lines 104-111
CreatorRechecked(st, p, parentId, createdFolderId, createdFolder) ==
    Returned(After(st, createdFolder.log),
             ToolOutput([success |-> TRUE, folderId |-> createdFolderId,
                         folderName |-> p.folderName, parentId |-> parentId,
                         alreadyExisted |-> FALSE], p))

\* lines 91-103
CreatorCreated(st, p, parentId, createdFolderId) ==
    IF createdFolderId = NULL
    THEN Returned(st, ToolOutput([success |-> FALSE, error |-> "FOLDER_CREATION_FAILED",
                                  folderName |-> p.folderName,
                                  parentId |-> parentId], p))
    ELSE CreatorRechecked(st, p, parentId, createdFolderId.id,
             CheckFolderExists("utils", st.tree, NextOutcome(st), p.folderName,
                               parentId, FALSE))

CreatorCreateRun(st, p, parentId, run) ==
    CreatorCreated(AfterRun(st, run), p, parentId, run.call.result)

\* lines 77-91
CreatorChecked(st, p, parentId, existingFolder) ==
    IF existingFolder # NULL
    THEN Returned(st, ToolOutput([success |-> TRUE, folderId |-> existingFolder.id,
                                  folderName |-> p.folderName, parentId |-> parentId,
                                  alreadyExisted |-> TRUE], p))
    ELSE CreatorCreateRun(st, p, parentId,
                          CreateFolderIfNotExists(st, p.folderName, parentId))

CreatorCheck(st, p, parentId, existing) ==
    CreatorChecked(After(st, existing.log), p, parentId, existing.result)

\* lines 76-77
CreatorInParent(st, p, parentId) ==
    CreatorCheck(st, p, parentId,
        CheckFolderExists("utils", st.tree, NextOutcome(st), p.folderName, parentId,
                          FALSE))

\* findParentFolder, lines 128-143
ParentCreated(st, p, newFolderId) ==
    IF newFolderId # NULL THEN CreatorInParent(st, p, newFolderId.id)
    ELSE Returned(st, ToolOutput([success |-> FALSE, error |-> "PARENT_FOLDER_NOT_FOUND",
                                  folderName |-> p.parentFolderName], p))

ParentCreateRun(st, p, run) == ParentCreated(AfterRun(st, run), p, run.call.result)

\* findParentFolder (lines 117-153) and lines 65-71 of _call
CreatorParentFound(st, p, findResult) ==
    IF findResult.result = Thrown
    THEN Returned(st, ToolOutput([success |-> FALSE, error |-> FetchFailed,
                                  folderName |-> p.parentFolderName], p))
    ELSE IF Len(findResult.result.files) > 0
         THEN CreatorInParent(st, p, findResult.result.files[1].id)
    ELSE IF p.createParentsIfNotExist
         THEN ParentCreateRun(st, p,
                  CreateFolderIfNotExists(st, p.parentFolderName, "root"))
    ELSE Returned(st, ToolOutput([success |-> FALSE, error |-> "PARENT_FOLDER_NOT_FOUND",
                                  folderName |-> p.parentFolderName], p))

CreatorFindParent(st, p, findResult) ==
    CreatorParentFound(After(st, findResult.log), p, findResult)

SmartFolderCreator(st, p) ==
    IF p.folderPath # <<>>
    THEN CreatorPathRun(st, p,
             RunCall(StartCall("createFolderPath", p.folderPath), st.tree, st.fails,
                     st.log))
    ELSE IF p.parentFolderId # "" THEN CreatorInParent(st, p, p.parentFolderId)
    ELSE IF p.parentFolderName # <<>>
         THEN CreatorFindParent(st, p,
                  FindFolderByName("utils", st.tree, NextOutcome(st),
                                   p.parentFolderName, TRUE, FALSE))
    ELSE CreatorInParent(st, p, "root")

-----------------------------------------------------------------------------
(* SmartFileUrlTool._call (smart-file-url.ts:474-688) for the url types
   'view' and 'download', which need no request of their own *)

\* what a files.get request for an id is answered with
GetResponse(tree, fileId, outcome) ==
    IF outcome # "ok" THEN [status |-> outcome, files |-> <<>>, id |-> ""]
    ELSE IF FolderMapHas(tree, fileId)
         THEN [status |-> "ok", files |-> <<FolderMapGet(tree, fileId)>>, id |-> fileId]
    ELSE [status |-> "http_error", files |-> <<>>, id |-> ""]

GetRequest(fileId) ==
    [method |-> "GET", q |-> <<>>, pageSize |-> 0, name |-> <<>>, parent |-> "",
     fileId |-> fileId]

\* getFileById (url-uploader.ts:918-933): the parsed response, which for a
\* non-2xx response is the object of handleGoogleAPIResponse, and null when
\* the fetch is rejected
FileGot(fileId, resp) ==
    [log |-> <<[request |-> GetRequest(fileId), response |-> resp, embeds |-> <<>>]>>,
     result |-> IF resp.status = "ok" THEN resp.files[1]
                ELSE IF resp.status = "http_error" THEN ApiErrorObject
                ELSE NULL]

GetFileById(tree, outcome, fileId) == FileGot(fileId, GetResponse(tree, fileId, outcome))

\* generateFileUrls (lines 639-688) for the url types 'view' and 'download'
FileUrls(file, urlType) ==
    IF urlType = "view" THEN [view |-> [link |-> "view", of |-> file]]
    ELSE IF "kind" \in DOMAIN file /\ file.kind = "folder" THEN [download |-> NULL]
    ELSE [download |-> [link |-> "download", of |-> file]]

\* lines 550-572
FileUrlSuccess(st, p, files) ==
    Returned(st, ToolOutput([success |-> TRUE,
                             files |-> [i \in 1..Len(files) |->
                                           [file |-> files[i],
                                            urls |-> FileUrls(files[i], p.urlType)]],
                             count |-> Len(files), urlType |-> p.urlType], p))

\* lines 490-517
FileUrlGot(st, p, got, notFound) ==
    IF got.result # NULL THEN FileUrlSuccess(After(st, got.log), p, <<got.result>>)
    ELSE Returned(After(st, got.log),
                  ToolOutput([success |-> FALSE, error |-> notFound], p))

\* lines 519-548
FileUrlSearched(st, p, files, notFound) ==
    IF Len(files) = 0
    THEN Returned(st, ToolOutput([success |-> FALSE, error |-> notFound], p))
    ELSE FileUrlSuccess(st, p, files)

\* searchFilesByName, lines 599-605
FilesSearched(st, p, result) ==
    FileUrlSearched(After(st, result.log), p,
                    IF result.result = Thrown THEN <<>> ELSE result.result.files,
                    "FILE_NOT_FOUND")

FilesInFolder(st, p, folderId) ==
    FilesSearched(st, p,
        FindFileByName("utils", st.tree, NextOutcome(st), p.fileName, p.exactMatch,
                       folderId, p.maxResults, FALSE))

\* resolveFolderId, lines 634-640: a rejected fetch leaves the folder unset
FilesAfterFolder(st, p, result) ==
    FilesInFolder(After(st, result.log), p,
                  IF result.result # Thrown /\ Len(result.result.files) > 0
                  THEN result.result.files[1].id
                  ELSE "")

FilesAfterPath(st, p, run) ==
    FilesInFolder(AfterRun(st, run), p,
                  IF run.call.result = NULL THEN "" ELSE run.call.result.id)

\* searchFilesByName (lines 591-608) with resolveFolderId (lines 628-650)
SearchFilesByName(st, p) ==
    IF p.folderPath # <<>>
    THEN FilesAfterPath(st, p,
             RunCall(StartCall("resolveFolderPath", p.folderPath), st.tree, st.fails,
                     st.log))
    ELSE IF p.folderName # <<>>
         THEN FilesAfterFolder(st, p,
                  FindFolderByName("utils", st.tree, NextOutcome(st), p.folderName,
                                   TRUE, FALSE))
    ELSE FilesInFolder(st, p, "")

\* searchFoldersByName, lines 614-620
FoldersUnderPath(st, p, folders, run) ==
    FileUrlSearched(AfterRun(st, run), p,
                    IF run.call.result = NULL THEN folders
                    ELSE SelectSeq(folders, LAMBDA f : f.parent = run.call.result.id),
                    "FOLDER_NOT_FOUND")

\* searchFoldersByName (lines 610-626)
FoldersSearched(st, p, result) ==
    IF result.result = Thrown
    THEN FileUrlSearched(st, p, <<>>, "FOLDER_NOT_FOUND")
    ELSE IF p.folderPath # <<>> /\ Len(result.result.files) > 0
         THEN FoldersUnderPath(st, p, result.result.files,
                  RunCall(StartCall("resolveFolderPath", p.folderPath), st.tree,
                          st.fails, st.log))
    ELSE FileUrlSearched(st, p, result.result.files, "FOLDER_NOT_FOUND")

FoldersAfterSearch(st, p, result) == FoldersSearched(After(st, result.log), p, result)

SmartFileUrl(st, p) ==
    IF p.fileId = "" /\ p.fileName = <<>> /\ p.folderName = <<>> /\ p.folderId = ""
    THEN Returned(st, ToolOutput([success |-> FALSE,
                                  error |-> "MISSING_REQUIRED_PARAMS"], p))
    ELSE IF p.fileId # ""
         THEN FileUrlGot(st, p, GetFileById(st.tree, NextOutcome(st), p.fileId),
                         "FILE_NOT_FOUND")
    ELSE IF p.folderId # ""
         THEN FileUrlGot(st, p, GetFileById(st.tree, NextOutcome(st), p.folderId),
                         "FOLDER_NOT_FOUND")
    ELSE IF p.fileName # <<>> THEN SearchFilesByName(st, p)
    ELSE FoldersAfterSearch(st, p,
             FindFolderByName("utils", st.tree, NextOutcome(st), p.folderName,
                              p.exactMatch, FALSE))

-----------------------------------------------------------------------------
(* URLFileUploaderTool._call (url-uploader.ts:59-364) *)

\* isTwilioURL (lines 351-363): the host name of the url includes
\* 'twilio.com' or 'twiml.com'
TwilioHosts == {"api.twilio.com", "media.twiml.com"}

isTwilioURL(url) == Len(url) >= 2 /\ url[1] = "https://" /\ url[2] \in TwilioHosts

\* extractFileNameFromURL (lines 294-303): the last piece of the path
extractFileNameFromURL(url) ==
    IF Len(url) >= 4 /\ url[Len(url)] # "/" THEN <<url[Len(url)]>> ELSE <<>>

\* line 144
UploadName(p) ==
    IF p.fileName # <<>> THEN p.fileName
    ELSE IF extractFileNameFromURL(p.fileUrl) # <<>>
         THEN extractFileNameFromURL(p.fileUrl)
    ELSE <<"downloaded_file_", ToString(now)>>

\* the file an upload adds to the remote
NewFile(tree, fileName, parentId) ==
    [id |-> FolderId(Len(tree) + 1), name |-> fileName, parent |-> parentId,
     trashed |-> FALSE, kind |-> "file", shared |-> FALSE, text |-> <<>>]

\* lines 178-187
UploaderCaught(st, p, message) ==
    Returned(st, ToolOutput([success |-> FALSE, error |-> message,
                             errorType |-> "Error", url |-> p.fileUrl], p))

\* uploadToGoogleDrive (lines 254-292) and lines 159-177
UploaderUpload(st, p, world, targetFolderId) ==
    IF world.upload # "ok"
    THEN UploaderCaught(st, p, IF world.upload = "http_error"
                               THEN "Google Drive upload failed" ELSE FetchFailed)
    ELSE [Returned(st, ToolOutput([success |-> TRUE,
                                   fileId |-> NewFile(st.tree, UploadName(p),
                                                      targetFolderId).id,
                                   fileName |-> UploadName(p),
                                   targetFolderId |-> targetFolderId], p))
          EXCEPT !.tree = Append(st.tree, NewFile(st.tree, UploadName(p),
                                                  targetFolderId))]

\* lines 146-157
UploaderChecked(st, p, world, targetFolderId, existingFile) ==
    IF existingFile.result # NULL
    THEN Returned(After(st, existingFile.log),
                  ToolOutput([success |-> FALSE,
                              existingFileId |-> existingFile.result.id,
                              fileName |-> UploadName(p), error |-> "FILE_EXISTS"], p))
    ELSE UploaderUpload(After(st, existingFile.log), p, world, targetFolderId)

\* lines 140-177: the download was answered
UploaderDownloaded(st, p, world, targetFolderId) ==
    IF world.download # "ok"
    THEN Returned(st, ToolOutput([success |-> FALSE,
                                  error |-> IF world.download = "http_error"
                                            THEN "DOWNLOAD_FAILED" ELSE "DOWNLOAD_ERROR",
                                  url |-> p.fileUrl], p))
    ELSE IF ~p.overwriteExisting
         THEN UploaderChecked(st, p, world, targetFolderId,
                  CheckFileExists("utils", st.tree, NextOutcome(st), UploadName(p),
                                  targetFolderId, FALSE))
    ELSE UploaderUpload(st, p, world, targetFolderId)

\* downloadFromURL (lines 190-252) and line 139
UploaderDownload(st, p, world, targetFolderId) ==
    [UploaderDownloaded(st, p, world, targetFolderId) EXCEPT !.fetched = <<p.fileUrl>>]

\* lines 126-135
UploaderCreated(st, p, world, targetFolderId) ==
    IF targetFolderId = NULL
    THEN Returned(st, ToolOutput([success |-> FALSE,
                                  targetFolder |-> IF p.targetFolderName # <<>>
                                                   THEN p.targetFolderName
                                                   ELSE p.folderPath,
                                  error |-> "FOLDER_NOT_FOUND_AND_CREATION_FAILED"], p))
    ELSE UploaderDownload(st, p, world, targetFolderId.id)

UploaderCreateRun(st, p, world, run) ==
    UploaderCreated(AfterRun(st, run), p, world, run.call.result)

\* lines 97-136 without the test of lines 98-119
UploaderLooked_noConfirmation(st, p, world, targetFolderId) ==
    IF targetFolderId # "" THEN UploaderDownload(st, p, world, targetFolderId)
    ELSE IF p.folderPath # <<>>
         THEN UploaderCreateRun(st, p, world,
                  RunCall(StartCall("createFolderPath", p.folderPath), st.tree,
                          st.fails, st.log))
    ELSE UploaderCreateRun(st, p, world,
             CreateFolderIfNotExists(st, p.targetFolderName, "root"))

\* lines 97-136: the folder was looked up; "" stands for not found
UploaderLooked(st, p, world, targetFolderId) ==
    IF targetFolderId # "" THEN UploaderDownload(st, p, world, targetFolderId)
    ELSE IF p.requireConfirmationToCreateFolder /\ ~p.userConfirmedFolderCreation
         THEN Returned(st, ToolOutput(
                  [success |-> FALSE, error |-> "FOLDER_NOT_FOUND_REQUIRES_CONFIRMATION",
                   targetFolder |-> IF p.targetFolderName # <<>>
                                    THEN p.targetFolderName ELSE p.folderPath,
                   requiresUserConfirmation |-> TRUE,
                   nextAction |-> [tool |-> "url_file_uploader",
                                   params |-> [p EXCEPT
                                       !.userConfirmedFolderCreation = TRUE]]], p))
    ELSE IF p.folderPath # <<>>
         THEN UploaderCreateRun(st, p, world,
                  RunCall(StartCall("createFolderPath", p.folderPath), st.tree,
                          st.fails, st.log))
    ELSE UploaderCreateRun(st, p, world,
             CreateFolderIfNotExists(st, p.targetFolderName, "root"))

\* lines 87-88
UploaderResolved(st, p, world, run) ==
    UploaderLooked(AfterRun(st, run), p, world,
                   IF run.call.result = NULL THEN "" ELSE run.call.result.id)

\* lines 89-94
UploaderFound(st, p, world, folderResult) ==
    IF folderResult.result = Thrown
    THEN UploaderCaught(After(st, folderResult.log), p, FetchFailed)
    ELSE UploaderLooked(After(st, folderResult.log), p, world,
                        IF Len(folderResult.result.files) > 0
                        THEN folderResult.result.files[1].id ELSE "")

URLFileUploader(st, p, world) ==
    IF isTwilioURL(p.fileUrl) /\ ~world.twilioCredentials
    THEN Returned(st, ToolOutput([success |-> FALSE,
                                  error |-> "TWILIO_CREDENTIALS_MISSING"], p))
    ELSE IF p.targetFolderId # "" THEN UploaderDownload(st, p, world, p.targetFolderId)
    ELSE IF p.folderPath = <<>> /\ p.targetFolderName = <<>>
         THEN UploaderCaught(st, p,
                  "Required targetFolderName, targetFolderId or folderPath")
    ELSE IF p.folderPath # <<>>
         THEN UploaderResolved(st, p, world,
                  RunCall(StartCall("resolveFolderPath", p.folderPath), st.tree,
                          st.fails, st.log))
    ELSE UploaderFound(st, p, world,
             FindFolderByName("utils", st.tree, NextOutcome(st), p.targetFolderName,
                              TRUE, FALSE))

-----------------------------------------------------------------------------
(* Calls of the tools *)

\* a call of a tool: clearExpiredCache at its start (every tool but the
\* uploader), the requests of the call, its setCacheEntry calls and the text
\* it returns
ToolCall(tool, run) ==
    /\ ncalls < MaxCalls
    /\ ncalls' = ncalls + 1
    /\ remote' = run.tree
    /\ folderCache' = WriteAll(IF tool = "url_file_uploader" THEN folderCache
                               ELSE Swept(folderCache, now),
                               run.writes)
    /\ ret' = [op |-> tool, value |-> run.value, log |-> run.log,
               cacheBefore |-> folderCache, before |-> remote,
               fetched |-> run.fetched]
    /\ UNCHANGED <<now, folderPath, otherPath, made, args, calls>>

FinderArgs ==
    [folderName : Names, parentFolderId : {"", FolderId(1)},
     parentFolderName : {<<>>, <<"A">>}, exactMatch : BOOLEAN,
     useFullTextSearch : BOOLEAN, includeTrashed : BOOLEAN, maxResults : {10}]

NavigatorArgs ==
    [operation : {"listRoot", "listSubfolders", "listContents", "getFolderStructure"},
     parentFolderId : {"", FolderId(1)}, parentFolderName : {<<>>, <<"A">>, <<"D">>},
     includeFiles : BOOLEAN, searchInShared : BOOLEAN, includeTrashed : {FALSE},
     maxResults : {50}, sortBy : {"name"}]

CreatorArgs ==
    [folderName : {<<"A">>, <<"D">>}, parentFolderName : {<<>>, <<"A">>, <<"D">>},
     parentFolderId : {"", FolderId(1)},
     folderPath : {<<>>, <<"A", "/", "D">>, <<"D", "/", "A">>},
     createParentsIfNotExist : BOOLEAN]

FileUrlArgs ==
    [fileName : {<<>>, <<"A">>}, fileId : {"", FolderId(4), FolderId(9)},
     folderName : {<<>>, <<"A">>}, folderId : {"", FolderId(1)},
     folderPath : {<<>>, <<"A">>}, urlType : {"view", "download"},
     exactMatch : {FALSE}, maxResults : {10}]

UploaderArgs ==
    [fileUrl : { <<"https://", "api.twilio.com", "/", "A">>,
                 <<"https://", "example.com", "/", "A">> },
     targetFolderName : {<<>>, <<"D">>}, targetFolderId : {"", FolderId(1)},
     fileName : {<<>>}, folderPath : {<<>>, <<"D", "/", "A">>},
     overwriteExisting : BOOLEAN, requireConfirmationToCreateFolder : BOOLEAN,
     userConfirmedFolderCreation : BOOLEAN]

\* the tool's Twilio credentials and the outcomes of the download and of
\* the upload
UploaderWorlds ==
    { [twilioCredentials |-> TRUE, download |-> "ok", upload |-> "ok"],
      [twilioCredentials |-> FALSE, download |-> "ok", upload |-> "ok"],
      [twilioCredentials |-> TRUE, download |-> "http_error", upload |-> "ok"],
      [twilioCredentials |-> TRUE, download |-> "network_error", upload |-> "ok"],
      [twilioCredentials |-> TRUE, download |-> "ok", upload |-> "http_error"],
      [twilioCredentials |-> TRUE, download |-> "ok", upload |-> "network_error"] }

smartFolderFinder ==
    /\ args \in FinderArgs
    /\ \E fails \in FailPatterns :
           ToolCall("smart_folder_finder",
                    SmartFolderFinder(ToolState(remote, fails), args))

hierarchicalFolderNavigator ==
    /\ args \in NavigatorArgs
    /\ \E fails \in FailPatterns :
           ToolCall("hierarchical_folder_navigator",
                    HierarchicalFolderNavigator(ToolState(remote, fails), args))

smartFolderCreator ==
    /\ args \in CreatorArgs
    /\ \E fails \in FailPatterns :
           ToolCall("smart_folder_creator",
                    SmartFolderCreator(ToolState(remote, fails), args))

smartFileUrl ==
    /\ args \in FileUrlArgs
    /\ \E fails \in FailPatterns :
           ToolCall("smart_file_url", SmartFileUrl(ToolState(remote, fails), args))

urlFileUploader ==
    /\ args \in UploaderArgs
    /\ \E fails \in FailPatterns, world \in UploaderWorlds :
           ToolCall("url_file_uploader",
                    URLFileUploader(ToolState(remote, fails), args, world))

InitTools ==
    /\ EmptyCache
    /\ remote \in SearchRemotes
    /\ args \in FinderArgs \cup NavigatorArgs \cup CreatorArgs \cup FileUrlArgs
                \cup UploaderArgs
    /\ folderPath = <<>>
    /\ otherPath = <<>>
    /\ made = NoneMade
    /\ ncalls = 0
    /\ calls = <<>>
    /\ ret = [op |-> "none"]

NextTools ==
    \/ smartFolderFinder
    \/ hierarchicalFolderNavigator
    \/ smartFolderCreator
    \/ smartFileUrl
    \/ urlFileUploader

SpecTools == InitTools /\ [][NextTools]_vars

-----------------------------------------------------------------------------
(* Concurrent invocations of createFolderPath (url-uploader.ts:881-913) with
   createFolderIfNotExists and checkFolderExists (814-876): each invocation
   runs from one await of makeGoogleDriveRequest to the next without
   interruption, and the remote answers one request at a time *)

Invocations == {1, 2}

\* the paths the concurrent invocations are called with
RacePaths == { <<"A">>, <<"A", "/", "A">>, <<"Root", "/", "A">> }

RaceStep(i, request, outcome, resp) ==
    /\ remote' = Apply(remote, request, outcome)
    /\ calls' = [calls EXCEPT ![i] = Resume(calls[i], resp)]
    /\ ret' = [op |-> "race",
               log |-> Append(ret.log, [invocation |-> i, request |-> request,
                                        response |-> resp, segment |-> calls[i].k,
                                        pc |-> calls[i].pc])]
    /\ UNCHANGED <<cacheVars, folderPath, otherPath, made, ncalls, args>>

\* the remote answers the pending request of invocation i, which then runs
\* up to its next request or to its return; args.fails tells which of the
\* requests of the run fail, counted in the order the remote answers them
Answer(i) ==
    /\ calls[i].pc # "return"
    /\ RaceStep(i, PendingRequest(calls[i]), OutcomeOf(args.fails, Len(ret.log) + 1),
                Respond(remote, PendingRequest(calls[i]),
                        OutcomeOf(args.fails, Len(ret.log) + 1)))

answerFirst == Answer(1)

answerSecond == Answer(2)

InitRace ==
    /\ EmptyCache
    /\ remote \in InitialRemotes
    /\ folderPath \in RacePaths
    /\ otherPath = folderPath
    /\ made = NoneMade
    /\ ncalls = 0
    /\ args \in [fails : FailPatterns]
    /\ calls = [i \in Invocations |-> StartCall("createFolderPath", folderPath)]
    /\ ret = [op |-> "race", log |-> <<>>]

NextRace ==
    \/ answerFirst
    \/ answerSecond

SpecRace == InitRace /\ [][NextRace]_vars

-----------------------------------------------------------------------------
(* The ancestor walk of buildFolderPath (url-uploader.ts:528-543,
   part_001:132-147, smart-tools.ts:464-479), one evaluation of the loop
   condition at a time *)

\* the folder summaries of a list: parent "" is a folder without parents
Summaries ==
    [id : {FolderId(1), FolderId(2)}, name : {<<"A">>, <<"My Drive">>},
     parent : {"", "root", FolderId(1), FolderId(2)}]

RECURSIVE ListsOf(_)
ListsOf(n) ==
    IF n = 0 THEN {<<>>}
    ELSE {Append(list, f) : list \in ListsOf(n - 1), f \in Summaries}

FolderLists == UNION {ListsOf(n) : n \in 0..MaxFolders}

\* the loop of buildFolderPath evaluates its condition once more; the walk
\* is followed for at most MaxWalk passes
walkStep ==
    /\ ret.op = "buildFolderPath"
    /\ ~ret.walk.done
    /\ ret.walk.iterations < MaxWalk
    /\ ret' = [ret EXCEPT !.walk = BuildStep(ret.walk, remote)]
    /\ UNCHANGED <<cacheVars, pathVars>>

InitBuild ==
    /\ EmptyCache
    /\ remote \in FolderLists
    /\ args \in [folderId : {"", FolderId(1), FolderId(2), FolderId(3)}]
    /\ folderPath = <<>>
    /\ otherPath = <<>>
    /\ made = NoneMade
    /\ ncalls = 0
    /\ calls = <<>>
    /\ ret = [op |-> "buildFolderPath", walk |-> BuildStart(args.folderId)]

NextBuild == walkStep

SpecBuild == InitBuild /\ [][NextBuild]_vars

-----------------------------------------------------------------------------
(* addTrashedFilter applied to a query and to its own results
   (url-uploader.ts:376-387) *)

QueryAtoms == {"name=", "x", " ", " and ", "trashed", "trashed=false"}

RECURSIVE QueriesOf(_)
QueriesOf(n) ==
    IF n = 0 THEN {<<>>}
    ELSE {Append(q, a) : q \in QueriesOf(n - 1), a \in QueryAtoms}

Queries == UNION {QueriesOf(n) : n \in 0..MaxQuery}

\* addTrashedFilter is applied to the query of the run, or to what its last
\* application returned
applyTrashedFilter ==
    /\ ret.op = "addTrashedFilter"
    /\ ret.applied < MaxApply
    /\ ret' = [op |-> "addTrashedFilter", applied |-> ret.applied + 1,
               query |-> ret.value,
               value |-> addTrashedFilter(ret.value, args.includeTrashed)]
    /\ UNCHANGED <<cacheVars, pathVars>>

InitFilter ==
    /\ EmptyCache
    /\ remote = <<>>
    /\ args \in [query : Queries, includeTrashed : BOOLEAN]
    /\ folderPath = <<>>
    /\ otherPath = <<>>
    /\ made = NoneMade
    /\ ncalls = 0
    /\ calls = <<>>
    /\ ret = [op |-> "addTrashedFilter", applied |-> 0, query |-> <<>>,
              value |-> args.query]

NextFilter == applyTrashedFilter

SpecFilter == InitFilter /\ [][NextFilter]_vars

-----------------------------------------------------------------------------
(* TwilioDownloadByUrlTool._call (TwilioMedia/core.ts:105-214) with the
   functions of TwilioMedia/twilio-utils.ts.  A file name is a sequence of
   atoms whose extension, when it has one, is an atom that starts with a
   dot (".jpg"). *)

\* the atoms that hold a dot
DotAtoms == {".jpg", ".", ".."}

\* String.prototype.lastIndexOf('.') > 0, as the position of the atom: 0
\* when no dot comes after the first character
LastDot(name) ==
    IF \E k \in 2..Len(name) : name[k] \in DotAtoms
    THEN CHOOSE k \in 2..Len(name) :
             /\ name[k] \in DotAtoms
             /\ \A j \in (k + 1)..Len(name) : name[j] \notin DotAtoms
    ELSE 0

\* sanitize-filename: '/' is removed, '.' and '..' give the empty name
Sanitize(name) ==
    IF name \in {<<".">>, <<"..">>} THEN <<>>
    ELSE SelectSeq(name, LAMBDA a : a # "/")

\* twilio-utils.ts:41-47: the first candidate base_i.ext that is not used
RECURSIVE UniqueCandidate(_, _, _, _)
UniqueCandidate(baseName, extension, usedNames, i) ==
    IF (baseName \o <<"_", ToString(i)>> \o extension) \in usedNames
    THEN UniqueCandidate(baseName, extension, usedNames, i + 1)
    ELSE baseName \o <<"_", ToString(i)>> \o extension

\* twilio-utils.ts:34-48
ensureUniqueFileName(fileName, usedNames) ==
    LET sanitized == IF Sanitize(fileName) = <<>> THEN <<"file">> ELSE Sanitize(fileName)
        lastDotIndex == LastDot(sanitized)
    IN
    IF sanitized \notin usedNames THEN sanitized
    ELSE UniqueCandidate(
             IF lastDotIndex > 0 THEN SubSeq(sanitized, 1, lastDotIndex - 1) ELSE sanitized,
             IF lastDotIndex > 0 THEN SubSeq(sanitized, lastDotIndex, Len(sanitized))
             ELSE <<>>,
             usedNames, 1)

\* twilio-utils.ts:23-32: what follows the last '/' of the path, <<>> for null
TwilioFileName(url) ==
    IF \E k \in 3..Len(url) : url[k] = "/"
    THEN LET k == CHOOSE k \in 3..Len(url) :
                      url[k] = "/" /\ \A j \in (k + 1)..Len(url) : url[j] # "/"
         IN SubSeq(url, k + 1, Len(url))
    ELSE <<>>

\* twilio-utils.ts:59-78, for the content types of the model
mimeToExtension(mime) == IF mime = "image/jpeg" THEN <<".jpg">> ELSE <<>>

\* twilio-utils.ts:50-57
detectMimeType(fileName, contentTypeHeader) ==
    IF contentTypeHeader # "" THEN contentTypeHeader
    ELSE IF LastDot(fileName) > 0 /\ fileName[Len(fileName)] = ".jpg" THEN "image/jpeg"
    ELSE "application/octet-stream"

\* core.ts:160-167: the name of a downloaded file before it is made unique
DownloadName(c, url, contentType) ==
    IF Trim(c.providedNames[c.i + 1]) # <<>> THEN Trim(c.providedNames[c.i + 1])
    ELSE LET fileName == IF TwilioFileName(url) # <<>> THEN TwilioFileName(url)
                         ELSE <<"twilio_media_", ToString(c.i)>>
         IN IF (\A k \in 1..Len(fileName) : fileName[k] \notin DotAtoms)
               /\ contentType # ""
            THEN fileName \o mimeToExtension(contentType)
            ELSE fileName

\* core.ts:155-187: the file a successful download adds to files
DownloadedFile(c, url, contentType, fileName) ==
    [c EXCEPT !.usedNames = c.usedNames \cup {fileName},
              !.files = Append(c.files,
                            [url |-> url, name |-> fileName,
                             mime |-> detectMimeType(fileName, contentType)])]

\* core.ts:199-208
TwilioResult(c) ==
    [success |-> Len(c.files) > 0, totalRequested |-> Len(c.urls),
     downloaded |-> Len(c.files), failed |-> Len(c.failures),
     files |-> c.files, failures |-> c.failures]

\* the end of one pass of the loop: the next pass, or the return
TwilioNext(c) ==
    IF c.i + 1 < Len(c.urls) THEN [c EXCEPT !.i = c.i + 1]
    ELSE [c EXCEPT !.i = c.i + 1, !.pc = "returned"]

TwilioAnswered_stopAtFailure(c, url, outcome, contentType) ==
    IF outcome # "ok"
    THEN [c EXCEPT !.i = c.i + 1, !.pc = "returned",
                   !.failures = Append(c.failures, [url |-> url, error |-> outcome])]
    ELSE TwilioNext(DownloadedFile(c, url, contentType,
             ensureUniqueFileName(DownloadName(c, url, contentType), c.usedNames)))

\* core.ts:145-196: the fetch of a pass was answered (ok, with a content
\* type), answered with a non-2xx status, or rejected
TwilioAnswered(c, url, outcome, contentType) ==
    IF outcome = "http_error"
    THEN TwilioNext([c EXCEPT !.failures =
                        Append(c.failures, [url |-> url, status |-> "status",
                                            statusText |-> "statusText"])])
    ELSE IF outcome = "network_error"
         THEN TwilioNext([c EXCEPT !.failures =
                             Append(c.failures, [url |-> url, error |-> FetchFailed])])
    ELSE TwilioNext(DownloadedFile(c, url, contentType,
             ensureUniqueFileName(DownloadName(c, url, contentType), c.usedNames)))

\* core.ts:109-110: the urls that are not blank, trimmed
RECURSIVE TrimmedUrls(_)
TrimmedUrls(rawUrls) ==
    IF rawUrls = <<>> THEN <<>>
    ELSE IF Trim(Head(rawUrls)) # <<>>
         THEN <<Trim(Head(rawUrls))>> \o TrimmedUrls(Tail(rawUrls))
    ELSE TrimmedUrls(Tail(rawUrls))

\* core.ts:128-133
RECURSIVE Padded(_, _)
Padded(providedNames, n) ==
    IF Len(providedNames) >= n THEN providedNames
    ELSE Padded(Append(providedNames, <<>>), n)

\* core.ts:105-143: the call up to its first fetch, or its early return
TwilioStart(p, urls) ==
    IF Len(urls) = 0
    THEN [pc |-> "returned", early |-> "NO_URLS"]
    ELSE IF (\E k \in 1..Len(urls) : isTwilioURL(urls[k])) /\ ~p.twilioCredentials
         THEN [pc |-> "returned", early |-> "TWILIO_CREDENTIALS_MISSING"]
    ELSE [pc |-> "fetch", early |-> "", urls |-> urls,
          providedNames |-> Padded(p.fileName, Len(urls)), i |-> 0,
          usedNames |-> {}, files |-> <<>>, failures |-> <<>>, attempts |-> <<>>]

\* the text the call returns
TwilioOutput(c, p) ==
    IF c.early # ""
    THEN ToolOutput([success |-> FALSE, error |-> c.early], p)
    ELSE ToolOutput(TwilioResult(c), p)

\* attempts: the urls fetched so far with the outcome of each fetch
\* (history, never read by the tool)
TwilioStep(c) ==
    /\ calls' = c
    /\ ret' = IF c.pc = "returned"
              THEN [op |-> "twilio_download_media", value |-> TwilioOutput(c, args)]
              ELSE ret
    /\ UNCHANGED <<cacheVars, remote, folderPath, otherPath, made, ncalls, args>>

twilioCall ==
    /\ calls.pc = "start"
    /\ TwilioStep(TwilioStart(args, TrimmedUrls(args.mediaUrl)))

twilioFetchAnswered ==
    /\ calls.pc = "fetch"
    /\ \E outcome \in OneOutcome, contentType \in {"", "image/jpeg"} :
          /\ outcome # "ok" => contentType = ""
          /\ TwilioStep([TwilioAnswered(calls, calls.urls[calls.i + 1], outcome,
                                        contentType)
                         EXCEPT !.attempts = Append(calls.attempts,
                                    [url |-> calls.urls[calls.i + 1],
                                     outcome |-> outcome])])

TwilioUrls ==
    { <<" ">>,
      <<"https://", "api.twilio.com", "/", "a", ".jpg">>,
      <<" ", "https://", "example.com", "/", "a", ".jpg">>,
      <<"https://", "example.com", "/">> }

RECURSIVE UrlListsOf(_)
UrlListsOf(n) ==
    IF n = 0 THEN {<<>>}
    ELSE {Append(list, u) : list \in UrlListsOf(n - 1), u \in TwilioUrls}

TwilioArgs ==
    [mediaUrl : UNION {UrlListsOf(n) : n \in 0..MaxUrls},
     fileName : { <<>>, << <<"a", ".jpg">> >>, << <<"..">>, <<"a">> >> },
     twilioCredentials : BOOLEAN, returnDataUrl : {FALSE}]

InitTwilio ==
    /\ EmptyCache
    /\ remote = <<>>
    /\ args \in TwilioArgs
    /\ folderPath = <<>>
    /\ otherPath = <<>>
    /\ made = NoneMade
    /\ ncalls = 0
    /\ calls = [pc |-> "start"]
    /\ ret = [op |-> "none"]

NextTwilio ==
    \/ twilioCall
    \/ twilioFetchAnswered

SpecTwilio == InitTwilio /\ [][NextTwilio]_vars

-----------------------------------------------------------------------------
(* Properties of the folder cache *)

\* the fingerprint of a token in the words of the specification: its last 8
\* characters
Last8(token) == SliceLast(token, 8)

\* C1: for tokens A and B whose last 8 characters differ, getCacheEntry(B, F)
\* never returns what setCacheEntry(A, F, d) stored: whatever it returns was
\* stored for folder F under B's fingerprint and has not expired; in every
\* other case it returns null.
C1_OtherFingerprintMisses ==
    (ret.op = "get" /\ ret.value # NULL) =>
        /\ Last8(ret.entry.by) = Last8(ret.token)
        /\ ret.entry.fid = ret.folderId
        /\ ret.value = ret.entry.data
        /\ now <= ret.entry.expiresAt

\* a lookup by B missed although an unexpired entry of a token with another
\* fingerprint is in the cache for the same folder id
C1_Witness ==
    /\ ret.op = "get"
    /\ ret.value = NULL
    /\ \E i \in 1..Len(folderCache) :
          /\ folderCache[i].fid = ret.folderId
          /\ Last8(folderCache[i].by) # Last8(ret.token)
          /\ now <= folderCache[i].expiresAt

\* C2 as stated: for any two DISTINCT tokens A and B, what A stored is never
\* returned to B by getCacheEntry nor listed for B by getFolderCacheForToken.
C2_Original ==
    /\ (ret.op = "get" /\ ret.value # NULL) => ret.entry.by = ret.token
    /\ ret.op = "list" =>
          \A i \in 1..Len(ret.value) : ret.value[i].entry.by = ret.token

\* C2 amended: for any two tokens A and B whose last 8 characters differ,
\* what A stored is never returned to B by getCacheEntry nor listed for B by
\* getFolderCacheForToken, after any sequence of set/get/sweep operations.
C2_NoLeakAcrossFingerprints ==
    \A A \in Tokens, B \in Tokens :
        (Last8(A) # Last8(B) /\ ret.token = B) =>
            /\ ret.op = "get" => (ret.value = NULL \/ ret.entry.by # A)
            /\ ret.op = "list" =>
                  \A i \in 1..Len(ret.value) : ret.value[i].entry.by # A

\* getFolderCacheForToken(B) ran while the cache held an unexpired entry of a
\* token with another fingerprint, and listed an entry of B's fingerprint
C2_Witness ==
    /\ ret.op = "list"
    /\ Len(ret.value) > 0
    /\ \E i \in 1..Len(folderCache) :
          /\ Last8(folderCache[i].by) # Last8(ret.token)
          /\ now <= folderCache[i].expiresAt

\* C3: when getCacheEntry(T, F) finds an entry whose expiresAt is earlier
\* than the current time, it returns null and the entry is gone from the cache
\* afterwards; it never returns the data of such an entry.
C3_ExpiredIsAbsentAndEvicted ==
    ret.op = "get" =>
        /\ (ret.entry # NULL /\ ret.entry.expiresAt < now) =>
              /\ ret.value = NULL
              /\ MapGet(folderCache, ret.entry.key) = NULL
        /\ ret.value # NULL => ~(ret.entry.expiresAt < now)

\* getCacheEntry was called by the owner of an entry that had expired
C3_Witness ==
    /\ ret.op = "get"
    /\ ret.entry # NULL
    /\ ret.entry.expiresAt < now
    /\ ret.entry.accessTokenHash = hashAccessToken(ret.token)

\* the entries of a cache under a key
EntriesAt(m, key) == SelectSeq(m, LAMBDA e : e.key = key)

\* a step of setCacheEntry leaves one entry under the key of its arguments,
\* with the given data and an expiry time one hour after the current time
SetStoresFresh ==
    ret'.op = "set" =>
        LET stored == EntriesAt(folderCache', createCacheKey(ret'.token, ret'.folderId))
        IN /\ Len(stored) = 1
           /\ stored[1].data = ret'.value
           /\ stored[1].expiresAt = now' + 3600000

\* a getCacheEntry with the arguments of the setCacheEntry just before it
\* returns the data that was set
GetAfterSetReturnsIt ==
    (/\ ret.op = "set" /\ ret'.op = "get"
     /\ ret'.token = ret.token /\ ret'.folderId = ret.folderId) =>
        ret'.value = ret.value

\* a step of getCacheEntry leaves every entry it keeps as it was
GetKeepsEntries ==
    ret'.op = "get" =>
        \A i \in 1..Len(folderCache') :
            \E j \in 1..Len(folderCache) : folderCache[j] = folderCache'[i]

\* C22: setCacheEntry(token, folderId, identity) replaces any entry under
\* the key of (token fingerprint, folderId) by a fresh entry with the given
\* identity as data and expiresAt = current time + 1 hour; a getCacheEntry
\* (token, folderId) immediately after it returns that identity; and
\* getCacheEntry never extends the expiresAt of an entry.
C22_SetReplacesWithFreshEntry ==
    [][SetStoresFresh /\ GetAfterSetReturnsIt /\ GetKeepsEntries]_vars

\* setCacheEntry replaced an entry: the entry under the key of its arguments
\* is fresh although an entry inserted after it is older
C22_Witness ==
    /\ ret.op = "set"
    /\ \E i \in 1..Len(folderCache), j \in 1..Len(folderCache) :
          /\ i < j
          /\ folderCache[i].key = createCacheKey(ret.token, ret.folderId)
          /\ folderCache[i].data = ret.value
          /\ folderCache[i].expiresAt = now + CACHE_EXPIRY
          /\ folderCache[j].expiresAt < folderCache[i].expiresAt

\* C23: after clearExpiredCache ran at time now the cache holds no entry
\* with expiresAt < now, and every entry with expiresAt >= now is still
\* there as it was (same key, data, fingerprint and expiry, in the same
\* order), whatever token stored it; the sweep adds nothing.
C23_SweepEvictsExactlyExpired ==
    ret.op = "sweep" =>
        /\ \A i \in 1..Len(folderCache) : ~(folderCache[i].expiresAt < now)
        /\ folderCache = SelectSeq(ret.before, LAMBDA e : e.expiresAt >= now)

\* a sweep evicted an expired entry and kept one that expires at the very
\* time of the sweep, stored by another token
C23_Witness ==
    /\ ret.op = "sweep"
    /\ Len(ret.before) = 2
    /\ Len(folderCache) = 1
    /\ folderCache[1].expiresAt = now
    /\ \E i \in 1..2 :
          /\ ret.before[i].expiresAt < now
          /\ ret.before[i].by # folderCache[1].by

\* the (token fingerprint, folder id) pair an entry was stored for
PairOf(e) == <<Last8(e.by), e.fid>>

\* a step of setCacheEntry or getCacheEntry leaves the entries of every
\* other pair in the cache
OtherPairsStay ==
    ret'.op \in {"set", "get"} =>
        \A i \in 1..Len(folderCache) :
            PairOf(folderCache[i]) # <<Last8(ret'.token), ret'.folderId>> =>
                \E j \in 1..Len(folderCache') : folderCache'[j] = folderCache[i]

\* getCacheEntry returns only what was stored for its own pair
OwnPairReturned ==
    (ret'.op = "get" /\ ret'.value # NULL) =>
        /\ PairOf(ret'.entry) = <<Last8(ret'.token), ret'.folderId>>
        /\ ret'.value = ret'.entry.data

\* getFolderCacheForToken lists the unexpired entries of the token's
\* fingerprint, each under the folder id it was stored with
ListsOwnEntries ==
    ret'.op = "list" =>
        LET own == SelectSeq(folderCache, LAMBDA e :
                       Last8(e.by) = Last8(ret'.token) /\ now <= e.expiresAt)
        IN /\ Len(ret'.value) = Len(own)
           /\ \A i \in 1..Len(own) :
                  \E j \in 1..Len(ret'.value) :
                      /\ ret'.value[j].key = own[i].fid
                      /\ ret'.value[j].entry = own[i]

\* C29: distinct (token fingerprint, folder id) pairs never share a cache
\* slot, whatever the fingerprint and the folder id, a ':' in them included:
\* setCacheEntry for a pair never overwrites, and getCacheEntry for a pair
\* never evicts or returns, the entry of another pair; and
\* getFolderCacheForToken(T) returns exactly the unexpired entries stored
\* under T's fingerprint, each keyed by the folder id it was stored with.
C29_PairsNeverShareSlot ==
    [][OtherPairsStay /\ OwnPairReturned /\ ListsOwnEntries]_vars

\* no ':' in the fingerprints and folder ids in play
NoColons ==
    /\ \A i \in 1..Len(folderCache) :
          /\ IndexFrom(Last8(folderCache[i].by), ":", 1) = 0
          /\ IndexFrom(folderCache[i].fid, ":", 1) = 0
    /\ IndexFrom(Last8(ret'.token), ":", 1) = 0
    /\ IndexFrom(ret'.folderId, ":", 1) = 0

\* the part of C29 the code does: the same for fingerprints and folder ids
\* without a ':'
C29_ColonFreePairsKeepSlots ==
    [][NoColons => (OtherPairsStay /\ OwnPairReturned /\ ListsOwnEntries)]_vars

-----------------------------------------------------------------------------
(* Properties of path resolution *)

IsPathCall == ret.op \in Fns

\* the requests of a log
Requests(log) == [j \in 1..Len(log) |-> log[j].request]

\* the create requests of a log, each as [name, parent]
Posts(log) ==
    LET posts == SelectSeq(log, LAMBDA e : e.request.method = "POST") IN
    [j \in 1..Len(posts) |-> [name |-> posts[j].request.name,
                              parent |-> posts[j].request.parent]]

\* a path that names the root: empty, blank, or made only of empty segments
\* and of segments that equal 'root' or 'my drive' in any letter case
RootOnlyPath(p) ==
    \/ \A i \in 1..Len(p) : p[i] = " "
    \/ \A i \in 1..Len(Split(p, "/")) :
          LET seg == Split(p, "/")[i] IN
          seg = <<>> \/ LowerText(seg) \in {<<"root">>, <<"my drive">>}

\* C4: resolveFolderPath of an empty or blank path, of "/", of a root alias in
\* any letter case, or of a path made only of root aliases and empty segments
\* returns 'root' and sends no request.
C4_RootPathsNeedNoRequest ==
    (ret.op = "resolveFolderPath" /\ RootOnlyPath(folderPath)) =>
        /\ ret.result = Id("root")
        /\ ret.log = <<>>

\* resolveFolderPath("My Drive//Root") has returned
C4_Witness ==
    /\ ret.op = "resolveFolderPath"
    /\ folderPath = <<"My Drive", "/", "/", "Root">>
    /\ ret.before # <<>>

\* C5: two paths with the same non-empty segments, resolved (or created)
\* against the same remote tree, send the same requests and return the same
\* folder id.
C5_SpellingsAgree ==
    (ret.op = "spellings"
        /\ NonEmptySegments(folderPath) = NonEmptySegments(otherPath)) =>
        /\ Requests(ret.a.log) = Requests(ret.b.log)
        /\ ret.a.result = ret.b.result

\* "A//A" and "A/A" were both walked, and two segments were looked up
C5_Witness ==
    /\ ret.op = "spellings"
    /\ folderPath = <<"A", "/", "/", "A">>
    /\ otherPath = <<"A", "/", "A">>
    /\ Len(ret.a.log) >= 2
    /\ ret.a.result # NULL

\* a lookup that was answered and found nothing
NotFound(e) ==
    /\ e.request.method = "GET"
    /\ e.response.status = "ok"
    /\ e.response.files = <<>>

\* C6: resolveFolderPath sends no create request and leaves the remote tree
\* as it was; when a segment is not found it returns null without looking up
\* any later segment.
C6_ResolveNeverCreates ==
    ret.op = "resolveFolderPath" =>
        /\ \A j \in 1..Len(ret.log) : ret.log[j].request.method = "GET"
        /\ remote = ret.before
        /\ \A j \in 1..Len(ret.log) :
              NotFound(ret.log[j]) => (j = Len(ret.log) /\ ret.result = NULL)

\* resolveFolderPath stopped at a missing segment that was not the last one
C6_Witness ==
    /\ ret.op = "resolveFolderPath"
    /\ Len(ret.log) >= 2
    /\ NotFound(ret.log[Len(ret.log)])
    /\ ret.log[Len(ret.log)].segment < Len(PathParts(folderPath))

\* the folders of a tree with this name under this parent that are not trashed
Live(tree, name, parent) ==
    SelectSeq(tree, LAMBDA f : f.name = name /\ f.parent = parent /\ ~f.trashed)

\* the create requests C7 asks for: one for each segment that does not exist
\* under the folder of the segment before it, none for a segment that exists
RECURSIVE ExpectedCreates(_, _, _, _)
ExpectedCreates(parts, k, cur, tree) ==
    IF k > Len(parts) THEN <<>>
    ELSE IF LowerText(parts[k]) \in {<<"root">>, <<"my drive">>}
         THEN ExpectedCreates(parts, k + 1, "root", tree)
    ELSE IF Live(tree, parts[k], cur) # <<>>
         THEN ExpectedCreates(parts, k + 1, Live(tree, parts[k], cur)[1].id, tree)
    ELSE <<[name |-> parts[k], parent |-> cur]>>
         \o ExpectedCreates(parts, k + 1, FolderId(Len(tree) + 1),
                            Append(tree, Folder(Len(tree) + 1, parts[k], cur, FALSE)))

RootAlias(seg) == LowerText(seg) \in {<<"root">>, <<"my drive">>}

\* the folder a request looks in or creates in is the root
UnderRoot(request) ==
    IF request.method = "POST" THEN request.parent = "root"
    ELSE \E i \in 1..Len(request.q) :
             /\ i + 3 <= Len(request.q)
             /\ SubSeq(request.q, i, i + 3) = <<Quote, "root", Quote, " in parents">>

C8_ReadAfterWrite ==
    (ret.op \in {"resolveFolderPath", "createFolderPath"}
        /\ ret.expect.result # NULL
        /\ AllOk(ret.log)) =>
        ret.result = ret.expect.result

\* the same, for a createFolderPath(P) whose own remote calls all succeeded
C8_ReadAfterCleanWrite ==
    (ret.op \in {"resolveFolderPath", "createFolderPath"}
        /\ ret.expect.result # NULL
        /\ ret.expect.clean
        /\ AllOk(ret.log)) =>
        ret.result = ret.expect.result

-----------------------------------------------------------------------------
(* Properties of the searches by name *)

\* the fallback requests of a log: the full-text searches
Fallbacks(log) ==
    SelectSeq(log, LAMBDA e :
        \E i \in 1..Len(e.request.q) : e.request.q[i] = "fullText contains ")

\* C9: searchFoldersWithFallback sends exactly one fallback (full-text)
\* request, whose result is tagged fulltext_fuzzy, when exactMatch is false,
\* the primary search returned no match and the full-text fallback is
\* enabled; it sends no fallback request when exactMatch is true, when the
\* fallback is disabled or when the primary search returned a match.
C9_FallbackExactlyWhenNeeded ==
    ret.op = "searchFoldersWithFallback" =>
        IF /\ ~args.exactMatch
           /\ args.useFullTextSearch
           /\ ret.primary # Thrown
           /\ Len(ret.primary.files) = 0
        THEN /\ Len(Fallbacks(ret.log)) = 1
             /\ ret.log[Len(ret.log)] = Fallbacks(ret.log)[1]
             /\ ret.result # Thrown => ret.result.searchMethod = "fulltext_fuzzy"
        ELSE /\ Len(Fallbacks(ret.log)) = 0
             /\ ret.result = ret.primary

\* a fallback request was sent after a primary search without a match, and
\* found a folder
C9_Witness ==
    /\ ret.op = "searchFoldersWithFallback"
    /\ ret.version = "utils"
    /\ ~args.exactMatch /\ args.useFullTextSearch
    /\ Len(ret.log) = 2
    /\ ret.log[1].response.status = "ok"
    /\ Len(Fallbacks(ret.log)) = 1
    /\ ret.result # Thrown
    /\ ret.result.searchMethod = "fulltext_fuzzy"
    /\ Len(ret.result.files) > 0

\* the single quotes of a text that no backslash precedes
BareQuotes(text) ==
    {i \in 1..Len(text) : text[i] = Quote /\ (i = 1 \/ text[i - 1] # Backslash)}

\* text without the backslash before each of its single quotes
RECURSIVE Unescaped(_)
Unescaped(text) ==
    IF text = <<>> THEN <<>>
    ELSE IF Len(text) >= 2 /\ text[1] = Backslash /\ text[2] = Quote
         THEN <<Quote>> \o Unescaped(SubSeq(text, 3, Len(text)))
    ELSE <<Head(text)>> \o Unescaped(Tail(text))

\* q holds a quoted literal that spells the name with each of its single
\* quotes escaped as \' and no bare single quote
EmbedsEscaped(q, name) ==
    \E i \in 1..Len(q), j \in 1..Len(q) :
        /\ i < j
        /\ q[i] = Quote /\ q[j] = Quote
        /\ i \in BareQuotes(q) /\ j \in BareQuotes(q)
        /\ BareQuotes(SubSeq(q, i + 1, j - 1)) = {}
        /\ Unescaped(SubSeq(q, i + 1, j - 1)) = name

\* C10: every filter sent to the remote that embeds a name given by the
\* caller has each single quote of the name escaped as \': no bare ' of the
\* name is inside the quoted literal.  This holds for findFolderByName,
\* findFileByName, the primary and the fallback search, resolveFolderPath,
\* checkFolderExists, checkFileExists and the navigator's search in the
\* shared files.
C10_NameQuotesEscaped ==
    ret.op # "none" =>
        \A k \in 1..Len(ret.log) :
            LET e == ret.log[k] IN
            e.embeds # <<>> => EmbedsEscaped(e.request.q, e.embeds)

\* the same for the functions of the utilities module alone
C10_UtilitiesEscape ==
    (/\ ret.op # "none"
     /\ ret.op # "searchInSharedFiles"
     /\ ret.version = "utils") =>
        \A k \in 1..Len(ret.log) :
            EmbedsEscaped(ret.log[k].request.q, ret.log[k].embeds)

\* the files of a response as its caller reads them: responseData.files || []
FilesOf(response) == IF response.status = "ok" THEN response.files ELSE <<>>

\* the strategy of a search request
StrategyOf(e) ==
    IF \E i \in 1..Len(e.request.q) : e.request.q[i] = "fullText contains "
    THEN "fulltext_fuzzy"
    ELSE IF \E i \in 1..Len(e.request.q) : e.request.q[i] = "name=" THEN "exact_match"
    ELSE "contains_match"

\* C11: searchFoldersWithFallback returns the matches of the search that
\* produced results, in the order the remote returned them, without sorting
\* or filtering, tagged exact_match or contains_match when the primary
\* search produced them and fulltext_fuzzy when the fallback did; when no
\* search produces a match the result is empty and tagged with the last
\* strategy attempted.
C11_MatchesAsReturned ==
    (ret.op = "searchFoldersWithFallback" /\ ret.result # Thrown) =>
        LET first == ret.log[1]
            last == ret.log[Len(ret.log)]
        IN /\ FilesOf(first.response) # <<>> =>
                  /\ ret.result.files = first.response.files
                  /\ ret.result.searchMethod = StrategyOf(first)
                  /\ ret.result.searchMethod \in {"exact_match", "contains_match"}
           /\ (FilesOf(first.response) = <<>> /\ Len(ret.log) = 2) =>
                  /\ ret.result.files = FilesOf(last.response)
                  /\ ret.result.searchMethod = "fulltext_fuzzy"
           /\ ret.result.files = FilesOf(last.response)
           /\ ret.result.searchMethod = StrategyOf(last)

\* the primary contains search returned two folders, and the result holds
\* them in that order
C11_Witness ==
    /\ ret.op = "searchFoldersWithFallback"
    /\ ret.version = "utils"
    /\ ret.result # Thrown
    /\ ret.result.searchMethod = "contains_match"
    /\ Len(ret.result.files) = 2
    /\ ret.result.files[1].id # ret.result.files[2].id
    /\ ret.result.files = ret.log[1].response.files

\* a search request that was answered without a match
Empty(e) == e.response.status = "ok" /\ e.response.files = <<>>

\* C20 as stated: the folder search follows the ladder exact -> contains ->
\* full-text: an exact-match search without results is retried with a
\* contains query, a contains search without results with a full-text query
\* (when the full-text search is enabled), and the search stops at the first
\* strategy that yields results.
C20_Original ==
    ret.op = "searchFoldersWithFallback" =>
        \A k \in 1..Len(ret.log) :
            /\ (Empty(ret.log[k]) /\ StrategyOf(ret.log[k]) = "exact_match") =>
                   /\ Len(ret.log) > k
                   /\ StrategyOf(ret.log[k + 1]) = "contains_match"
            /\ (/\ Empty(ret.log[k])
                /\ StrategyOf(ret.log[k]) = "contains_match"
                /\ args.useFullTextSearch) =>
                   /\ Len(ret.log) > k
                   /\ StrategyOf(ret.log[k + 1]) = "fulltext_fuzzy"
            /\ FilesOf(ret.log[k].response) # <<>> => k = Len(ret.log)

\* C20, amended: the folder search sends one primary request, exact when
\* exactMatch is true and contains when it is false, and at most one more
\* request, a full-text one, only when exactMatch is false, the full-text
\* search is enabled and the primary request yielded no results; an exact
\* search is never followed by a contains search, and the search stops at
\* the first request that yields results.
C20_Ladder ==
    ret.op = "searchFoldersWithFallback" =>
        /\ Len(ret.log) \in {1, 2}
        /\ StrategyOf(ret.log[1]) =
               IF args.exactMatch THEN "exact_match" ELSE "contains_match"
        /\ Len(ret.log) = 2 =>
               /\ ~args.exactMatch
               /\ args.useFullTextSearch
               /\ FilesOf(ret.log[1].response) = <<>>
               /\ StrategyOf(ret.log[2]) = "fulltext_fuzzy"
        /\ \A k \in 1..Len(ret.log) :
               FilesOf(ret.log[k].response) # <<>> => k = Len(ret.log)

\* an exact search was answered without a match and nothing was sent after
\* it, although the full-text search is enabled
C20_Witness ==
    /\ ret.op = "searchFoldersWithFallback"
    /\ args.exactMatch /\ args.useFullTextSearch
    /\ remote # <<>>
    /\ Len(ret.log) = 1
    /\ Empty(ret.log[1])
    /\ StrategyOf(ret.log[1]) = "exact_match"
    /\ ret.result # Thrown
    /\ ret.result.files = <<>>
    /\ ret.result.searchMethod = "exact_match"

\* the functions of the utilities module that search by a name
NameSearches ==
    {"findFolderByName", "findFileByName", "searchFoldersWithFallback",
     "checkFolderExists", "checkFileExists", "resolveFolderPath"}

\* a call of one of them that was asked to leave out trashed items
ExcludesTrashed ==
    /\ ret.op \in NameSearches
    /\ ret.op \notin Fns => (ret.version = "utils" /\ ~args.includeTrashed)

\* every search request of the last call holds the clause trashed=false
AllFiltered ==
    \A k \in 1..Len(ret.log) :
        ret.log[k].request.method = "GET" =>
            \E i \in 1..Len(ret.log[k].request.q) :
                ret.log[k].request.q[i] = "trashed=false"

\* C27: when includeTrashed is false, every search query that
\* findFolderByName, findFileByName, the primary and the fallback search,
\* resolveFolderPath, checkFolderExists and checkFileExists send holds the
\* constraint trashed=false, whatever the name the caller gave, also a name
\* that holds the text 'trashed'.
C27_TrashedAlwaysExcluded == ExcludesTrashed => AllFiltered

\* the part of C27 the code does: the constraint is there for every name
\* that does not hold the text 'trashed'
C27_ExcludedForOtherNames ==
    (ExcludesTrashed /\ ~IncludesTrashed(args.folderName)) => AllFiltered

-----------------------------------------------------------------------------
(* Properties of the tools *)

ToolNames ==
    {"smart_folder_finder", "hierarchical_folder_navigator", "smart_folder_creator",
     "smart_file_url", "url_file_uploader"}

\* the text is the JSON of an object, the separator token and the JSON of
\* the params
IsToolOutput(value, params) ==
    /\ Len(value) = 3
    /\ DOMAIN value[1] = {"json"}
    /\ value[2] = TOOL_ARGS_PREFIX
    /\ value[3] = Json(params)
    /\ "success" \in DOMAIN value[1].json

\* C12: every call of a tool returns, on every path (success, validation
\* failure, not found, remote error, caught exception), the JSON of a
\* structured result object, the separator token and the JSON echo of the
\* call's params.
C12_ToolsReturnStructured ==
    ret.op \in ToolNames => IsToolOutput(ret.value, args)

\* the files.create requests of a log that failed, and those that succeeded
FailedCreates(log) ==
    SelectSeq(log, LAMBDA e : e.request.method = "POST" /\ e.response.status # "ok")

DoneCreates(log) ==
    SelectSeq(log, LAMBDA e : e.request.method = "POST" /\ e.response.status = "ok")

\* the existence checks of a log that found the folder
FoundChecks(log) ==
    SelectSeq(log, LAMBDA e : /\ e.request.method = "GET"
                              /\ e.response.status = "ok"
                              /\ Len(e.response.files) > 0)

\* the report names the segment whose files.create request failed, the
\* segments created before it and the segments found to exist
ReportsProgress(report, parts, log) ==
    /\ "failedAt" \in DOMAIN report
    /\ report.failedAt = FailedCreates(log)[1].request.name
    /\ "createdFolders" \in DOMAIN report
    /\ [i \in 1..Len(report.createdFolders) |-> report.createdFolders[i].name]
           = [i \in 1..Len(DoneCreates(log)) |-> DoneCreates(log)[i].request.name]
    /\ "existingFolders" \in DOMAIN report
    /\ [i \in 1..Len(report.existingFolders) |-> report.existingFolders[i].name]
           = [i \in 1..Len(FoundChecks(log)) |-> parts[FoundChecks(log)[i].segment]]

\* C13: when the creation of a folder path fails at a segment (its
\* files.create request fails), the result SmartFolderCreatorTool reports
\* for the path names the segment that failed and lists the segments already
\* created and the segments that already existed.
C13_FailureReportsProgress ==
    (/\ ret.op = "smart_folder_creator"
     /\ args.folderPath # <<>>
     /\ FailedCreates(ret.log) # <<>>) =>
        /\ IsToolOutput(ret.value, args)
        /\ ~ret.value[1].json.success
        /\ ReportsProgress(ret.value[1].json, PathParts(args.folderPath), ret.log)

\* the same for SmartFolderCreatorTool.createFolderPath of part_002, whose
\* result carries failedAt, createdFolders and existingFolders
C13_EarlierCreatorReportsProgress ==
    (ret.op = "creatorCreateFolderPath" /\ FailedCreates(ret.log) # <<>>) =>
        /\ ret.result.tag = "failure"
        /\ ReportsProgress([failedAt |-> ret.result.failedAt,
                            createdFolders |-> ret.createdFolders,
                            existingFolders |-> ret.existingFolders],
                           PathParts(folderPath), ret.log)

\* C16: makeGoogleDriveRequest turns every non-2xx response into a raised
\* error that carries the HTTP status, the status text and the raw error
\* body; a non-2xx response is never delivered as a returned text.
C16_NonSuccessIsRaised ==
    (/\ ret.op = "makeGoogleDriveRequest"
     /\ ret.log[1].response.status = "http_error") =>
        /\ ret.result.tag = "throw"
        /\ \A part \in {"status", "statusText", "errorText"} :
               \E i \in 1..Len(ret.result.message) : ret.result.message[i] = part

\* the same for the versions of part_001 and of the class methods of
\* smart-tools.ts alone
C16_EarlierVersionsRaise ==
    (/\ ret.op = "makeGoogleDriveRequest"
     /\ ret.version # "utils"
     /\ ret.log[1].response.status = "http_error") =>
        /\ ret.result.tag = "throw"
        /\ \A part \in {"status", "statusText", "errorText"} :
               \E i \in 1..Len(ret.result.message) : ret.result.message[i] = part

\* a fetch of the call was rejected
TransportFailed(log) ==
    \E k \in 1..Len(log) : log[k].response.status = "network_error"

\* C17: resolveFolderPath and createFolderPath return an absence value and
\* never raise when a folder is simply not found, and they reject when a
\* request of theirs fails at the transport level, so that their caller can
\* tell the two apart.
C17_TransportFailurePropagates ==
    ret.op \in {"resolveFolderPath", "createFolderPath"} =>
        /\ TransportFailed(ret.log) => ret.result = Thrown
        /\ ~TransportFailed(ret.log) => ret.result # Thrown

\* the part of C17 the code does: searchFoldersWithFallback of the utilities
\* module rejects when a fetch is rejected and returns a list otherwise
C17_SearchPropagates ==
    (ret.op = "searchFoldersWithFallback" /\ ret.version = "utils") =>
        (TransportFailed(ret.log) <=> ret.result = Thrown)

\* a request that failed: a rejected fetch or a non-2xx answer
Failed(e) == e.response.status \in {"http_error", "network_error"}

\* a failed request of a log ends the call without a folder, and no create
\* request follows it
AbortsAtFailure(log, result) ==
    \A j \in 1..Len(log) :
        Failed(log[j]) =>
            /\ result = NULL
            /\ \A k \in (j + 1)..Len(log) : log[k].request.method # "POST"

\* C25: a failed remote call aborts the walk of a path: resolveFolderPath
\* returns absent, and createFolderPath, also when the call that failed is
\* the existence lookup of a segment, stops with a failure and sends no
\* create request for that segment or a later one.
C25_FailureAborts ==
    ret.op \in {"resolveFolderPath", "createFolderPath"} =>
        AbortsAtFailure(ret.log, ret.result)

\* the part of C25 the code does: a failed lookup ends resolveFolderPath
\* with null, and a failed create request ends createFolderPath with null
C25_ResolveAndCreateRequestAbort ==
    /\ ret.op = "resolveFolderPath" =>
          \A j \in 1..Len(ret.log) :
              Failed(ret.log[j]) => (j = Len(ret.log) /\ ret.result = NULL)
    /\ ret.op = "createFolderPath" =>
          \A j \in 1..Len(ret.log) :
              (Failed(ret.log[j]) /\ ret.log[j].request.method = "POST") =>
                  (j = Len(ret.log) /\ ret.result = NULL)

\* the call names no folder and no file: the params hold none of the
\* identifying parameters the operation needs
NothingIdentified ==
    \/ /\ ret.op = "smart_file_url"
       /\ args.fileId = "" /\ args.fileName = <<>>
       /\ args.folderId = "" /\ args.folderName = <<>>
    \/ /\ ret.op = "hierarchical_folder_navigator"
       /\ \/ args.operation = "listSubfolders"
          \/ args.operation = "listContents" /\ ~args.searchInShared
       /\ args.parentFolderId = "" /\ args.parentFolderName = <<>>
    \/ /\ ret.op = "url_file_uploader"
       /\ args.targetFolderId = "" /\ args.folderPath = <<>>
       /\ args.targetFolderName = <<>>

\* C18: a tool called without any identifying parameter (no folder name, id
\* or path; no file name or id) sends no remote request and returns a
\* structured failure result with an error code, never an unstructured text.
C18_MissingParamsStructured ==
    NothingIdentified =>
        /\ ret.log = <<>>
        /\ ret.before = remote
        /\ IsToolOutput(ret.value, args)
        /\ ~ret.value[1].json.success
        /\ "error" \in DOMAIN ret.value[1].json

\* the part of C18 the code does: no request is sent, and SmartFileUrlTool
\* and URLFileUploaderTool return a structured failure
C18_NoRequestWithoutParams ==
    NothingIdentified =>
        /\ ret.log = <<>>
        /\ ret.before = remote
        /\ ret.op # "hierarchical_folder_navigator" =>
              /\ IsToolOutput(ret.value, args)
              /\ ~ret.value[1].json.success
              /\ "error" \in DOMAIN ret.value[1].json

\* the lookup of the target folder found nothing: a lookup was answered
\* without a match, after lookups that found their folder
TargetNotFound(log) ==
    \E j \in 1..Len(log) :
        /\ NotFound(log[j])
        /\ \A i \in 1..(j - 1) :
               /\ log[i].request.method = "GET"
               /\ log[i].response.status = "ok"
               /\ log[i].response.files # <<>>

\* C26: URLFileUploaderTool asks for confirmation before it creates a
\* folder: when no targetFolderId is given, the target folder or path is not
\* found, requireConfirmationToCreateFolder is true and
\* userConfirmedFolderCreation is false, the call returns
\* FOLDER_NOT_FOUND_REQUIRES_CONFIRMATION and has sent no create request,
\* downloaded nothing and uploaded nothing; a create request is sent only
\* when confirmation is not required or the user has confirmed.
C26_ConfirmBeforeCreate ==
    ret.op = "url_file_uploader" =>
        /\ (/\ args.targetFolderId = ""
            /\ TargetNotFound(ret.log)
            /\ args.requireConfirmationToCreateFolder
            /\ ~args.userConfirmedFolderCreation) =>
               /\ IsToolOutput(ret.value, args)
               /\ ~ret.value[1].json.success
               /\ ret.value[1].json.error = "FOLDER_NOT_FOUND_REQUIRES_CONFIRMATION"
               /\ \A j \in 1..Len(ret.log) : ret.log[j].request.method # "POST"
               /\ ret.fetched = <<>>
               /\ remote = ret.before
        /\ (\E j \in 1..Len(ret.log) : ret.log[j].request.method = "POST") =>
               \/ ~args.requireConfirmationToCreateFolder
               \/ args.userConfirmedFolderCreation

\* the folder named D was looked up and not found, and the call asked for
\* confirmation
C26_Witness ==
    /\ ret.op = "url_file_uploader"
    /\ args.targetFolderId = "" /\ args.folderPath = <<>>
    /\ args.targetFolderName = <<"D">>
    /\ args.requireConfirmationToCreateFolder
    /\ ~args.userConfirmedFolderCreation
    /\ ret.before # <<>>
    /\ Len(ret.log) = 1
    /\ NotFound(ret.log[1])
    /\ ret.value[1].json.error = "FOLDER_NOT_FOUND_REQUIRES_CONFIRMATION"
    /\ ret.value[1].json.nextAction.params.userConfirmedFolderCreation

\* the live entries of a cache that a token can read
LiveFor(m, accessToken, time) ==
    SelectSeq(m, LAMBDA e : /\ e.accessTokenHash = hashAccessToken(accessToken)
                            /\ time <= e.expiresAt)

\* the folder search requests of a log: files.list requests for folders by
\* name or by text
FolderSearches(log) ==
    SelectSeq(log, LAMBDA e :
        /\ e.request.method = "GET"
        /\ \E i \in 1..Len(e.request.q) :
               e.request.q[i] \in {"name=", "name contains ", "fullText contains "})

\* C15: the folder search of SmartFolderFinderTool consults the folder cache
\* before the remote: when the cache holds live entries of the caller's
\* token for the folders of this search (stored by an earlier call with the
\* same params within the TTL), the call issues no remote search request;
\* and a search that found folders has stored each of them in the cache.
C15_CacheBeforeRemote ==
    ret.op = "smart_folder_finder" =>
        /\ LiveFor(ret.cacheBefore, ToolToken, now) # <<>>
              => FolderSearches(ret.log) = <<>>
        /\ (IsToolOutput(ret.value, args) /\ ret.value[1].json.success) =>
              \A i \in 1..Len(ret.value[1].json.folders) :
                  getCacheEntryHit(folderCache, ToolToken,
                                   <<ret.value[1].json.folders[i].id>>, now) # NULL

\* the part of C15 the code does: the folders found are stored
C15_ResultsStored ==
    (/\ ret.op = "smart_folder_finder"
     /\ IsToolOutput(ret.value, args)
     /\ ret.value[1].json.success) =>
        \A i \in 1..Len(ret.value[1].json.folders) :
            getCacheEntryHit(folderCache, ToolToken,
                             <<ret.value[1].json.folders[i].id>>, now) # NULL

\* the names of the ancestors of a folder that a list of folders knows,
\* outermost first: its parent, the parent of its parent and so on, up to a
\* folder the list does not hold or the drive itself
RECURSIVE AncestorNames(_, _, _)
AncestorNames(parentId, folders, fuel) ==
    IF fuel = 0 \/ parentId = "" \/ ~FolderMapHas(folders, parentId) THEN <<>>
    ELSE IF FolderMapGet(folders, parentId).name = <<"My Drive">> THEN <<>>
    ELSE AncestorNames(FolderMapGet(folders, parentId).parent, folders, fuel - 1)
         \o <<FolderMapGet(folders, parentId).name>>

\* the path C28 asks for
ExpectedFullPath(folder, folders) ==
    Join(AncestorNames(folder.parent, folders, Len(folders)) \o <<folder.name>>, "/")

\* C28: for every folder SmartFolderFinderTool returns, the fullPath it
\* reports and stores as the cached path is the names of the folder's known
\* ancestors (walking parents[0] through the list of all folders) joined by
\* '/', followed by the folder's own name exactly once.
C28_FullPathNamesFolderOnce ==
    (/\ ret.op = "smart_folder_finder"
     /\ IsToolOutput(ret.value, args)
     /\ ret.value[1].json.success) =>
        \A i \in 1..Len(ret.value[1].json.folders) :
            LET folder == ret.value[1].json.folders[i]
                expected == ExpectedFullPath(folder,
                                FilesOf(ret.log[Len(ret.log)].response))
            IN /\ folder.fullPath = expected
               /\ MapGet(folderCache, createCacheKey(ToolToken, <<folder.id>>)).data.path
                     = expected

\* the part of C28 the code does: the path it reports beside fullPath is
\* the one C28 asks for, when the list of all folders was received, and the
\* cached path is the reported fullPath
C28_PathNamesFolderOnce ==
    (/\ ret.op = "smart_folder_finder"
     /\ IsToolOutput(ret.value, args)
     /\ ret.value[1].json.success
     /\ ret.log[Len(ret.log)].response.status = "ok") =>
        \A i \in 1..Len(ret.value[1].json.folders) :
            LET folder == ret.value[1].json.folders[i] IN
            /\ folder.path = ExpectedFullPath(folder, ret.log[Len(ret.log)].response.files)
            /\ MapGet(folderCache, createCacheKey(ToolToken, <<folder.id>>)).data.path
                  = folder.fullPath

-----------------------------------------------------------------------------
(* Properties of concurrent invocations *)

\* the positions of the log at which an invocation's files.create request
\* for a folder name under a parent was answered with success
CreatesAt(log, i, name, parent) ==
    {n \in 1..Len(log) :
        /\ log[n].invocation = i
        /\ log[n].request.method = "POST"
        /\ log[n].response.status = "ok"
        /\ log[n].request.name = name
        /\ log[n].request.parent = parent}

\* the positions at which an invocation's existence checks for the segment
\* were answered
ChecksAt(log, i, segment) ==
    {n \in 1..Len(log) :
        /\ log[n].invocation = i
        /\ log[n].request.method = "GET"
        /\ log[n].segment = segment}

\* both invocations had every existence check for the segment answered
\* before either files.create request for it was answered
ChecksBeforeCreates(log, n1, n2) ==
    \A i \in Invocations :
        /\ ChecksAt(log, i, log[n1].segment) # {}
        /\ \A g \in ChecksAt(log, i, log[n1].segment) : g < n1 /\ g < n2

\* the folders of the remote with the name under the parent
SameName(tree, name, parent) ==
    {n \in 1..Len(tree) :
        tree[n].kind = "folder" /\ tree[n].name = name /\ tree[n].parent = parent}

-----------------------------------------------------------------------------
(* Properties of the ancestor walk *)

\* the ids of a list that its parent links lead around in a circle: a
\* non-empty set of ids of folders that the walk passes, each with its
\* parent in the set
Cyclic(folders) ==
    \E S \in SUBSET {folders[i].id : i \in 1..Len(folders)} :
        /\ S # {}
        /\ \A id \in S :
               /\ FolderMapGet(folders, id).name # <<"My Drive">>
               /\ FolderMapGet(folders, id).parent \in S

\* C19: buildFolderPath terminates for every target id and every finite
\* list of folder summaries after at most len(list) passes of its loop, also
\* when the parent links of the list are incomplete or form a cycle.
C19_WalkBounded ==
    ret.op = "buildFolderPath" => ret.walk.iterations <= Len(remote)

\* the part of C19 the code does: without a cycle in the parent links the
\* walk makes at most len(list) passes, and it ends at a missing link
C19_AcyclicWalkBounded ==
    (ret.op = "buildFolderPath" /\ ~Cyclic(remote)) =>
        ret.walk.iterations <= Len(remote)

-----------------------------------------------------------------------------
(* Properties of the trashed filter *)

\* the number of trashed=false clauses of a query
TrashedClauses(query) ==
    Cardinality({i \in 1..Len(query) : query[i] = "trashed=false"})

\* what an application of addTrashedFilter has to return, with the ' and '
\* joined in when joined holds
Filtered_as(query, includeTrashed, joined) ==
    IF includeTrashed \/ IncludesTrashed(query) THEN query
    ELSE query \o (IF joined THEN <<" and ">> ELSE <<>>) \o <<"trashed=false">>

\* C21 as stated: addTrashedFilter returns the query unchanged when
\* includeTrashed is true or the query references 'trashed', otherwise the
\* query with exactly one trashed=false clause appended, joined by ' and '
\* when the query is non-empty; applying it twice gives the same as once.
C21_Original ==
    (ret.op = "addTrashedFilter" /\ ret.applied > 0) =>
        /\ ret.value =
               Filtered_as(ret.query, args.includeTrashed, ret.query # <<>>)
        /\ ret.applied >= 2 => ret.value = ret.query

\* C21, amended: the same, with the ' and ' joined in when the query holds
\* something other than white space.
C21_FilterAppendedOnce ==
    (ret.op = "addTrashedFilter" /\ ret.applied > 0) =>
        /\ ret.value =
               Filtered_as(ret.query, args.includeTrashed, Trim(ret.query) # <<>>)
        /\ (~args.includeTrashed /\ ~IncludesTrashed(ret.query)) =>
               TrashedClauses(ret.value) = 1
        /\ ret.applied >= 2 => ret.value = ret.query

\* the filter was appended to a query with ' and ', and a second
\* application returned that result unchanged
C21_Witness ==
    /\ ret.op = "addTrashedFilter"
    /\ ret.applied = 2
    /\ ~args.includeTrashed
    /\ args.query = <<"name=", "x">>
    /\ ret.query = <<"name=", "x", " and ", "trashed=false">>
    /\ ret.value = ret.query

-----------------------------------------------------------------------------
(* Properties of the Twilio media download *)

\* the urls of the entries of a list
UrlsOf(list) == [k \in 1..Len(list) |-> list[k].url]

\* the call went through its download loop and returned
LoopReturned ==
    /\ ret.op = "twilio_download_media"
    /\ calls.pc = "returned"
    /\ calls.early = ""

\* C30: for every call of TwilioDownloadByUrlTool that reaches the download
\* loop, each requested url ends up in exactly one of files and failures
\* (the downloaded ones in files, the others in failures, in the order of
\* the request), so downloaded + failed = totalRequested; success is true
\* exactly when a file was downloaded; and every url is attempted, in order,
\* whatever happened to the urls before it.
C30_EveryUrlAccounted ==
    LoopReturned =>
        LET r == ret.value[1].json
            urls == TrimmedUrls(args.mediaUrl)
        IN /\ r.totalRequested = Len(urls)
           /\ r.downloaded = Len(r.files) /\ r.failed = Len(r.failures)
           /\ r.downloaded + r.failed = r.totalRequested
           /\ r.success <=> r.downloaded > 0
           /\ UrlsOf(calls.attempts) = urls
           /\ UrlsOf(r.files)
                = UrlsOf(SelectSeq(calls.attempts, LAMBDA a : a.outcome = "ok"))
           /\ UrlsOf(r.failures)
                = UrlsOf(SelectSeq(calls.attempts, LAMBDA a : a.outcome # "ok"))

\* the first url failed and the second was downloaded all the same
C30_Witness ==
    /\ LoopReturned
    /\ Len(calls.attempts) = 2
    /\ calls.attempts[1].outcome = "http_error"
    /\ calls.attempts[2].outcome = "ok"
    /\ ret.value[1].json.success
    /\ ret.value[1].json.downloaded = 1
    /\ ret.value[1].json.failed = 1

====
